---- MODULE Spec2Model ----
(***************************************************************************)
(* Chainge Kernel: the stream state machine (chainge-kernel-core           *)
(* stream.rs), the canonical encoding and validation of receipts           *)
(* (canonical.rs, receipt.rs, validation.rs), the stores                   *)
(* (chainge-kernel-store memory.rs, sqlite.rs, traits.rs), the Kernel      *)
(* (chainge-kernel kernel.rs), the sync session (chainge-kernel-sync       *)
(* protocol.rs, convergence.rs) and the permission state                   *)
(* (chainge-kernel-perms state.rs, grant.rs).                              *)
(*                                                                         *)
(* Eleven specifications share this module:                                *)
(*   Spec        the Kernel over a MemoryStore (Kernel::ingest)            *)
(*   StoreSpec   the Store trait called directly on a MemoryStore          *)
(*   StreamSpec  one StreamState driven by record_receipt,                 *)
(*               try_advance_head and mark_forked                          *)
(*   SyncSpec    two nodes that each run SyncSession::sync_with against    *)
(*               the other (chainge-kernel-sync protocol.rs)               *)
(*   ReceiveSpec one session in receive_receipts, fed by the transport     *)
(*   PermSpec    one Kernel with its permissions stream and its            *)
(*               PermissionState                                           *)
(*   KernelSpec  one Kernel called through create_stream, append,          *)
(*               tombstone, grant, revoke and ingest                       *)
(*   IngestSpec  two callers inside Kernel::ingest on one store, one       *)
(*               store call at a time                                      *)
(*   ReceiptSpec one receipt built, encoded, decoded and validated         *)
(*   StorageSpec upsert_stream_state and get_stream_state on a             *)
(*               MemoryStore and on a SqliteStore                          *)
(*   SyncTimeoutSpec  SyncSpec with receives that may time out before      *)
(*               the peer has sent, and fair scheduling of both sessions   *)
(*                                                                         *)
(* Conventions.  Option<T> is a sequence: <<>> is None, <<x>> is Some(x).  *)
(* A HashMap is a function whose DOMAIN is its key set.  Blake3 is an      *)
(* injective tagging of its input (no collisions).  Local clock readings   *)
(* (created_at, updated_at, detected_at, ingested_at) are left out: no     *)
(* operation reads them back.                                              *)
(***************************************************************************)
EXTENDS Integers, Sequences, FiniteSets, TLC

VARIABLES store, last, st, recorded, hist, node, permissions, tasks, sqlite

vars == <<store, last, st, recorded, hist, node, permissions, tasks, sqlite>>

\* ------------------------------------------------------------------ bounds

\* Highest sequence number a receipt of the model carries.
MaxSeq == 3

\* ------------------------------------------------------------- basic types

None == <<>>

Some(x) == <<x>>

Authors == {"alice"}

\* Stream names: the empty name and one non-empty name.
Names == {"", "test"}

Payloads == {"hello", "world"}

\* receipt.rs RECEIPT_VERSION
RECEIPT_VERSION == 0

\* receipt.rs MAX_REFS
MAX_REFS == 16

\* StreamId::derive: Blake3("chainge-stream-v0:" || author || ":" || name).
Derive(author, stream_name) == <<"chainge-stream-v0:", author, ":", stream_name>>

\* Blake3Hash::hash of a payload.
HashOf(payload) == <<"blake3", payload>>

\* Receipt::compute_id: Blake3 of the canonical bytes, which cover every
\* header field, the payload and the signature.
ReceiptIdOf(r) == <<"blake3", r.version, r.author, r.stream_id, r.seq, r.kind, r.prev_receipt_id, r.nrefs, r.payload_hash, r.payload, r.signer>>

\* ReceiptBuilder::sign: version, payload hash and signature are set by the
\* builder; the caller chooses author, stream, seq, kind, prev and payload.
Build(author, stream_id, seq, kind, prev, nrefs, payload, signer) ==
    [version |-> RECEIPT_VERSION, author |-> author, stream_id |-> stream_id,
     seq |-> seq, kind |-> kind, prev_receipt_id |-> prev, nrefs |-> nrefs,
     payload_hash |-> HashOf(payload), payload |-> payload, signer |-> signer]

RECURSIVE ChainReceipt(_, _, _, _)
\* The receipt an honest author builds at seq of a stream: StreamInit at 1,
\* Data afterwards, prev naming the "hello" receipt of the seq before.
ChainReceipt(author, name, seq, payload) ==
    IF seq = 1
    THEN Build(author, Derive(author, name), 1, "StreamInit", None, 0, payload, author)
    ELSE Build(author, Derive(author, name), seq, "Data",
               Some(ReceiptIdOf(ChainReceipt(author, name, seq - 1, "hello"))), 0, payload, author)

\* Seqs at which the author equivocates: a second receipt ("world") exists.
ForkSeqs == {1, 2}

\* Seqs of the receipts of the named stream "test".
NamedSeqs == {1, 2}

\* Receipts validate_receipt accepts: the chain 1..MaxSeq of the stream with
\* the empty name, a conflicting receipt at each seq of ForkSeqs, and the
\* first receipts of the stream named "test".
ValidReceipts ==
    {ChainReceipt(a, "", q, "hello") : a \in Authors, q \in 1..MaxSeq}
    \cup {ChainReceipt(a, "", q, "world") : a \in Authors, q \in ForkSeqs}
    \cup {ChainReceipt(a, "test", q, "hello") : a \in Authors, q \in NamedSeqs}

\* Receipts validate_receipt rejects: a forged signature, a wrong payload
\* hash, a seq-2 receipt without prev, a StreamInit at seq 2.
InvalidReceipts ==
    { [ChainReceipt("alice", "", 1, "hello") EXCEPT !.signer = "mallory"],
      [ChainReceipt("alice", "", 1, "hello") EXCEPT !.payload_hash = HashOf("world")],
      [ChainReceipt("alice", "", 2, "hello") EXCEPT !.prev_receipt_id = None],
      [ChainReceipt("alice", "", 2, "hello") EXCEPT !.kind = "StreamInit"] }

Receipts == ValidReceipts \cup InvalidReceipts

\* validate_receipt: the first failing check, or "Ok".
validate_receipt(r) ==
    IF r.version # RECEIPT_VERSION THEN "UnsupportedVersion"
    ELSE IF HashOf(r.payload) # r.payload_hash THEN "PayloadHashMismatch"
    ELSE IF r.nrefs > MAX_REFS THEN "TooManyRefs"
    ELSE IF r.kind = "Tombstone" /\ r.nrefs = 0 THEN "TombstoneMissingRef"
    ELSE IF r.kind = "StreamInit" /\ r.seq # 1 THEN "InvalidSequence"
    ELSE IF r.kind = "StreamInit" /\ r.prev_receipt_id # None THEN "InvalidPrevReceipt"
    ELSE IF r.seq > 1 /\ r.prev_receipt_id = None THEN "StructuralError"
    ELSE IF r.signer # r.author THEN "SignatureFailed"
    ELSE "Ok"

\* ------------------------------------------------------------ stream state

Healthy == [tag |-> "Healthy", missing |-> <<>>, at_seq |-> 0, receipts |-> <<>>]

\* BTreeSet iteration order: ascending.
SortedSeq(S) ==
    IF S = {} THEN <<>>
    ELSE LET lo == CHOOSE x \in S : \A y \in S : x <= y
             hi == CHOOSE x \in S : \A y \in S : y <= x
         IN SelectSeq([i \in 1..(hi - lo + 1) |-> lo + i - 1], LAMBDA x : x \in S)

HasGaps(gaps) == [tag |-> "HasGaps", missing |-> SortedSeq(gaps), at_seq |-> 0, receipts |-> <<>>]

Forked(at_seq, receipts) == [tag |-> "Forked", missing |-> <<>>, at_seq |-> at_seq, receipts |-> receipts]

\* StreamState::new
NewStreamState(author, stream_name) ==
    [stream_id |-> Derive(author, stream_name), author |-> author,
     stream_name |-> stream_name, head_seq |-> 0, head_receipt_id |-> None,
     known_max_seq |-> 0, gaps |-> {}, health |-> Healthy]

\* update_health without the early return on a forked state.
update_health_overwrites_fork(s) ==
    IF s.gaps = {} THEN [s EXCEPT !.health = Healthy]
    ELSE [s EXCEPT !.health = HasGaps(s.gaps)]

\* StreamState::update_health
update_health(s) ==
    IF s.health.tag = "Forked" THEN s
    ELSE IF s.gaps = {} THEN [s EXCEPT !.health = Healthy]
    ELSE [s EXCEPT !.health = HasGaps(s.gaps)]

\* record_receipt with the gap range of case 3 starting one seq too late.
record_receipt_gap_range_off_by_one(s, seq, receipt_id) ==
    LET s1 == [s EXCEPT !.known_max_seq = IF seq > @ THEN seq ELSE @]
    IN IF seq = s1.head_seq + 1
       THEN [state |-> update_health([s1 EXCEPT !.head_seq = seq,
                                                !.head_receipt_id = Some(receipt_id),
                                                !.gaps = @ \ {seq}]),
             result |-> "Accepted"]
       ELSE IF seq \in s1.gaps
       THEN [state |-> update_health([s1 EXCEPT !.gaps = @ \ {seq}]),
             result |-> "GapFilled"]
       ELSE IF seq > s1.head_seq + 1
       THEN [state |-> update_health([s1 EXCEPT !.gaps = @ \cup ((s1.head_seq + 2)..(seq - 1))]),
             result |-> "AcceptedWithGaps"]
       ELSE [state |-> s1, result |-> "Duplicate"]

\* record_receipt with case 2 (fills a known gap) tried before case 1.
record_receipt_gap_checked_first(s, seq, receipt_id) ==
    LET s1 == [s EXCEPT !.known_max_seq = IF seq > @ THEN seq ELSE @]
    IN IF seq \in s1.gaps
       THEN [state |-> update_health([s1 EXCEPT !.gaps = @ \ {seq}]),
             result |-> "GapFilled"]
       ELSE IF seq = s1.head_seq + 1
       THEN [state |-> update_health([s1 EXCEPT !.head_seq = seq,
                                                !.head_receipt_id = Some(receipt_id),
                                                !.gaps = @ \ {seq}]),
             result |-> "Accepted"]
       ELSE IF seq > s1.head_seq + 1
       THEN [state |-> update_health([s1 EXCEPT !.gaps = @ \cup ((s1.head_seq + 1)..(seq - 1))]),
             result |-> "AcceptedWithGaps"]
       ELSE [state |-> s1, result |-> "Duplicate"]

\* record_receipt with case 2 returning before it updates the health.
record_receipt_stale_health(s, seq, receipt_id) ==
    LET s1 == [s EXCEPT !.known_max_seq = IF seq > @ THEN seq ELSE @]
    IN IF seq = s1.head_seq + 1
       THEN [state |-> update_health([s1 EXCEPT !.head_seq = seq,
                                                !.head_receipt_id = Some(receipt_id),
                                                !.gaps = @ \ {seq}]),
             result |-> "Accepted"]
       ELSE IF seq \in s1.gaps
       THEN [state |-> [s1 EXCEPT !.gaps = @ \ {seq}],
             result |-> "GapFilled"]
       ELSE IF seq > s1.head_seq + 1
       THEN [state |-> update_health([s1 EXCEPT !.gaps = @ \cup ((s1.head_seq + 1)..(seq - 1))]),
             result |-> "AcceptedWithGaps"]
       ELSE [state |-> s1, result |-> "Duplicate"]

\* record_receipt with case 4 taking the passed id as the head's id.
record_receipt_duplicate_takes_id(s, seq, receipt_id) ==
    LET s1 == [s EXCEPT !.known_max_seq = IF seq > @ THEN seq ELSE @]
    IN IF seq = s1.head_seq + 1
       THEN [state |-> update_health([s1 EXCEPT !.head_seq = seq,
                                                !.head_receipt_id = Some(receipt_id),
                                                !.gaps = @ \ {seq}]),
             result |-> "Accepted"]
       ELSE IF seq \in s1.gaps
       THEN [state |-> update_health([s1 EXCEPT !.gaps = @ \ {seq}]),
             result |-> "GapFilled"]
       ELSE IF seq > s1.head_seq + 1
       THEN [state |-> update_health([s1 EXCEPT !.gaps = @ \cup ((s1.head_seq + 1)..(seq - 1))]),
             result |-> "AcceptedWithGaps"]
       ELSE [state |-> IF seq = s1.head_seq
                       THEN [s1 EXCEPT !.head_receipt_id = Some(receipt_id)] ELSE s1,
             result |-> "Duplicate"]

\* record_receipt without the update of known_max_seq.
record_receipt_stale_known_max(s, seq, receipt_id) ==
    IF seq = s.head_seq + 1
    THEN [state |-> update_health([s EXCEPT !.head_seq = seq,
                                            !.head_receipt_id = Some(receipt_id),
                                            !.gaps = @ \ {seq}]),
          result |-> "Accepted"]
    ELSE IF seq \in s.gaps
    THEN [state |-> update_health([s EXCEPT !.gaps = @ \ {seq}]),
          result |-> "GapFilled"]
    ELSE IF seq > s.head_seq + 1
    THEN [state |-> update_health([s EXCEPT !.gaps = @ \cup ((s.head_seq + 1)..(seq - 1))]),
          result |-> "AcceptedWithGaps"]
    ELSE [state |-> s, result |-> "Duplicate"]

\* StreamState::record_receipt: the new state and the RecordResult.
record_receipt(s, seq, receipt_id) ==
    LET s1 == [s EXCEPT !.known_max_seq = IF seq > @ THEN seq ELSE @]
    IN IF seq = s1.head_seq + 1
       THEN [state |-> update_health([s1 EXCEPT !.head_seq = seq,
                                                !.head_receipt_id = Some(receipt_id),
                                                !.gaps = @ \ {seq}]),
             result |-> "Accepted"]
       ELSE IF seq \in s1.gaps
       THEN [state |-> update_health([s1 EXCEPT !.gaps = @ \ {seq}]),
             result |-> "GapFilled"]
       ELSE IF seq > s1.head_seq + 1
       THEN [state |-> update_health([s1 EXCEPT !.gaps = @ \cup ((s1.head_seq + 1)..(seq - 1))]),
             result |-> "AcceptedWithGaps"]
       ELSE [state |-> s1, result |-> "Duplicate"]

\* The closure handed to try_advance_head, as a map seq -> receipt id.
LookupAt(get_receipt_at, seq) ==
    IF seq \in DOMAIN get_receipt_at THEN Some(get_receipt_at[seq]) ELSE None

\* The closure of Kernel::update_stream_state and insert_and_update_stream:
\* it returns None for every seq.
NoLookup == <<>>

\* try_advance_head's loop written as an if: at most one step.
advance_loop_single_step(s, get_receipt_at) ==
    IF s.head_seq < s.known_max_seq
    THEN LET next_seq == s.head_seq + 1
             got == LookupAt(get_receipt_at, next_seq)
         IN IF got # None /\ next_seq \notin s.gaps
            THEN [s EXCEPT !.head_seq = next_seq, !.head_receipt_id = got]
            ELSE s
    ELSE s

RECURSIVE advance_loop(_, _)
\* The while loop of try_advance_head.
advance_loop(s, get_receipt_at) ==
    IF s.head_seq < s.known_max_seq
    THEN LET next_seq == s.head_seq + 1
             got == LookupAt(get_receipt_at, next_seq)
         IN IF got # None /\ next_seq \notin s.gaps
            THEN advance_loop([s EXCEPT !.head_seq = next_seq, !.head_receipt_id = got],
                              get_receipt_at)
            ELSE s
    ELSE s

\* StreamState::try_advance_head: the new state and Option<new head>.
try_advance_head(s, get_receipt_at) ==
    LET s2 == advance_loop(s, get_receipt_at)
    IN IF s2.head_seq > s.head_seq
       THEN [state |-> update_health(s2), result |-> Some(s2.head_seq)]
       ELSE [state |-> s2, result |-> None]

\* StreamState::mark_forked
mark_forked(s, at_seq, receipts) == [s EXCEPT !.health = Forked(at_seq, receipts)]

\* ------------------------------------------------------------- MemoryStore

\* A map with key k set to v (HashMap::insert).
MapPut(m, k, v) == [x \in DOMAIN m \cup {k} |-> IF x = k THEN v ELSE m[x]]

\* HashMap::get as an Option.
MapGet(m, k) == IF k \in DOMAIN m THEN Some(m[k]) ELSE None

EmptyMap == <<>>

\* MemoryStore::new (gap_requests, written by mark_gap_requested only and
\* never read, is left out).
NewMemoryStore ==
    [receipts |-> EmptyMap, positions |-> EmptyMap, streams |-> EmptyMap,
     gaps |-> EmptyMap, forks |-> EmptyMap]

Inserted == [tag |-> "Inserted", existing |-> None]

AlreadyExists == [tag |-> "AlreadyExists", existing |-> None]

Conflict(existing_id) == [tag |-> "Conflict", existing |-> Some(existing_id)]

\* insert_receipt without the lookup by receipt id.
insert_receipt_no_id_check(s, r) ==
    LET receipt_id == ReceiptIdOf(r)
        pos == <<r.stream_id, r.seq>>
    IN IF pos \in DOMAIN s.positions
       THEN [store |-> s, result |-> Conflict(s.positions[pos])]
       ELSE [store |-> [s EXCEPT !.receipts = MapPut(@, receipt_id, r),
                                 !.positions = MapPut(@, pos, receipt_id)],
             result |-> Inserted]

\* insert_receipt without the lookup by position: the last writer wins.
insert_receipt_last_writer_wins(s, r) ==
    LET receipt_id == ReceiptIdOf(r)
        pos == <<r.stream_id, r.seq>>
    IN IF receipt_id \in DOMAIN s.receipts
       THEN [store |-> s, result |-> AlreadyExists]
       ELSE [store |-> [s EXCEPT !.receipts = MapPut(@, receipt_id, r),
                                 !.positions = MapPut(@, pos, receipt_id)],
             result |-> Inserted]

\* MemoryStore::insert_receipt: the new store and the InsertResult.
insert_receipt(s, r) ==
    LET receipt_id == ReceiptIdOf(r)
        pos == <<r.stream_id, r.seq>>
    IN IF receipt_id \in DOMAIN s.receipts
       THEN [store |-> s, result |-> AlreadyExists]
       ELSE IF pos \in DOMAIN s.positions
       THEN [store |-> s, result |-> Conflict(s.positions[pos])]
       ELSE [store |-> [s EXCEPT !.receipts = MapPut(@, receipt_id, r),
                                 !.positions = MapPut(@, pos, receipt_id)],
             result |-> Inserted]

\* MemoryStore::get_stream_state
get_stream_state(s, stream_id) == MapGet(s.streams, stream_id)

\* MemoryStore::get_receipt_by_position, as the id of the receipt found.
get_receipt_by_position(s, stream_id, seq) == MapGet(s.positions, <<stream_id, seq>>)

\* MemoryStore::upsert_stream_state: keyed by the state's own stream_id; the
\* gap table of that stream is overwritten with the state's gaps.
upsert_stream_state(s, state) ==
    [s EXCEPT !.streams = MapPut(@, state.stream_id, state),
              !.gaps = MapPut(@, state.stream_id, state.gaps)]

\* MemoryStore::get_gaps
get_gaps(s, stream_id) ==
    IF stream_id \in DOMAIN s.gaps THEN SortedSeq(s.gaps[stream_id]) ELSE <<>>

\* MemoryStore::add_gaps
add_gaps(s, stream_id, seqs) ==
    [s EXCEPT !.gaps = MapPut(@, stream_id,
                              (IF stream_id \in DOMAIN @ THEN @[stream_id] ELSE {}) \cup seqs)]

\* MemoryStore::remove_gap
remove_gap(s, stream_id, seq) ==
    IF stream_id \in DOMAIN s.gaps
    THEN [s EXCEPT !.gaps = MapPut(@, stream_id, @[stream_id] \ {seq})]
    ELSE s

\* MemoryStore::get_forks
get_forks(s, stream_id) ==
    IF stream_id \in DOMAIN s.forks THEN s.forks[stream_id] ELSE <<>>

\* MemoryStore::record_fork: entry(stream_id).or_default(), then push unless
\* the same (seq, receipt_id) is already there.
record_fork(s, stream_id, seq, receipt_id) ==
    LET forks == get_forks(s, stream_id)
        fork == [stream_id |-> stream_id, seq |-> seq, receipt_id |-> receipt_id]
    IN [s EXCEPT !.forks = MapPut(@, stream_id,
                                  IF \E i \in 1..Len(forks) :
                                        forks[i].seq = seq /\ forks[i].receipt_id = receipt_id
                                  THEN forks
                                  ELSE Append(forks, fork))]

\* StoreExt::insert_and_update_stream
insert_and_update_stream(s, r) ==
    LET ins == insert_receipt(s, r)
    IN IF ins.result.tag = "Inserted"
       THEN LET got == get_stream_state(ins.store, r.stream_id)
                state0 == IF got # None THEN got[1] ELSE NewStreamState(r.author, "")
                state1 == record_receipt(state0, r.seq, ReceiptIdOf(r)).state
                state2 == IF state1.gaps # {}
                          THEN try_advance_head(state1, NoLookup).state
                          ELSE state1
            IN [store |-> upsert_stream_state(ins.store, state2), result |-> ins.result]
       ELSE ins

\* ------------------------------------------------------------- SqliteStore

\* SqliteStore::open_memory after migrate: the tables streams (keyed by
\* stream_id) and stream_gaps (rows (stream_id, missing_seq)), empty.
NewSqliteStore == [streams |-> EmptyMap, stream_gaps |-> {}]

\* The health column: 0 = healthy, 1 = gaps, 2 = forked.
health_int(health) ==
    IF health.tag = "Healthy" THEN 0 ELSE IF health.tag = "HasGaps" THEN 1 ELSE 2

\* SqliteStore::upsert_stream_state: one transaction that inserts the row
\* or, on a conflict, updates the columns named in DO UPDATE SET, then
\* replaces the stream's rows of stream_gaps.
sqlite_upsert_stream_state(db, state) ==
    LET old == MapGet(db.streams, state.stream_id)
        row == [author |-> IF old # None THEN old[1].author ELSE state.author,
                stream_name |-> IF old # None THEN old[1].stream_name ELSE state.stream_name,
                head_seq |-> state.head_seq,
                head_receipt_id |-> state.head_receipt_id,
                known_max_seq |-> state.known_max_seq,
                health |-> health_int(state.health)]
    IN [streams |-> MapPut(db.streams, state.stream_id, row),
        stream_gaps |-> {g \in db.stream_gaps : g[1] # state.stream_id}
                           \cup {<<state.stream_id, seq>> : seq \in state.gaps}]

\* SqliteStore::get_stream_state: the row, the gaps read from stream_gaps
\* and the health rebuilt from the health column.
sqlite_get_stream_state(db, stream_id) ==
    LET row == MapGet(db.streams, stream_id)
        gaps == {g[2] : g \in {x \in db.stream_gaps : x[1] = stream_id}}
    IN IF row = None THEN None
       ELSE Some([stream_id |-> stream_id, author |-> row[1].author,
                  stream_name |-> row[1].stream_name, head_seq |-> row[1].head_seq,
                  head_receipt_id |-> row[1].head_receipt_id,
                  known_max_seq |-> row[1].known_max_seq, gaps |-> gaps,
                  health |-> IF row[1].health = 0 THEN Healthy
                             ELSE IF row[1].health = 1 THEN HasGaps(gaps)
                             ELSE IF row[1].health = 2 THEN Forked(0, <<>>)
                             ELSE Healthy])

\* ------------------------------------------------------------------ Kernel

\* KernelConfig::default: validate_on_ingest is true.
validate_on_ingest == TRUE

\* Kernel::update_stream_state
update_stream_state(s, r) ==
    LET got == get_stream_state(s, r.stream_id)
        state0 == IF got # None THEN got[1] ELSE NewStreamState(r.author, "")
        state1 == record_receipt(state0, r.seq, ReceiptIdOf(r)).state
        state2 == try_advance_head(state1, NoLookup).state
    IN upsert_stream_state(s, state2)

\* Kernel::update_stream_state up to its last store call: the state it read
\* (or created), with the receipt recorded and the advance-head pass done.
state_to_upsert(s, r) ==
    LET got == get_stream_state(s, r.stream_id)
        state0 == IF got # None THEN got[1] ELSE NewStreamState(r.author, "")
        state1 == record_receipt(state0, r.seq, ReceiptIdOf(r)).state
    IN try_advance_head(state1, NoLookup).state

\* Kernel::ingest: the new store, the IngestResult (or the validation error)
\* and the result of the insert_receipt call it made, if any.
ingest(s, r) ==
    LET verdict == IF validate_on_ingest THEN validate_receipt(r) ELSE "Ok"
        ins == insert_receipt(s, r)
    IN IF verdict # "Ok"
       THEN [store |-> s, insert |-> None,
             result |-> [tag |-> "Err", id |-> None, existing |-> None, err |-> verdict]]
       ELSE IF ins.result.tag = "Inserted"
       THEN [store |-> update_stream_state(ins.store, r), insert |-> Some(ins.result),
             result |-> [tag |-> "Accepted", id |-> Some(ReceiptIdOf(r)), existing |-> None, err |-> ""]]
       ELSE IF ins.result.tag = "AlreadyExists"
       THEN [store |-> s, insert |-> Some(ins.result),
             result |-> [tag |-> "Duplicate", id |-> None, existing |-> None, err |-> ""]]
       ELSE [store |-> record_fork(ins.store, r.stream_id, r.seq, ReceiptIdOf(r)),
             insert |-> Some(ins.result),
             result |-> [tag |-> "Conflict", id |-> None, existing |-> ins.result.existing, err |-> ""]]

\* ------------------------------------------------------------ permissions

\* PermissionScope; ScopeKey::from maps each scope to the key of the same
\* shape, so the scope stands for its key.
ReadStream(stream_id) == [tag |-> "ReadStream", target |-> stream_id]

WriteStream(stream_id) == [tag |-> "WriteStream", target |-> stream_id]

Admin(stream_id) == [tag |-> "Admin", target |-> stream_id]

\* Conditions
Conditions(expires_at, max_uses) == [expires_at |-> expires_at, max_uses |-> max_uses]

\* Conditions::is_valid
conditions_is_valid(c, now, uses) ==
    IF c.expires_at # None /\ now > c.expires_at[1] THEN FALSE
    ELSE IF c.max_uses # None /\ uses >= c.max_uses[1] THEN FALSE
    ELSE TRUE

\* GrantPayload
GrantPayload(recipient, scope, conditions) ==
    [recipient |-> recipient, scope |-> scope, conditions |-> conditions]

\* RevokePayload
RevokePayload(grant_receipt_id) == [grant_receipt_id |-> grant_receipt_id, reason |-> None]

\* GrantPayload::to_bytes and RevokePayload::to_bytes: the CBOR encoding of
\* the struct.
to_bytes(type, payload) == <<"cbor", type, payload>>

\* GrantPayload::from_bytes and RevokePayload::from_bytes: the struct, or
\* None when the bytes are not the CBOR encoding of that struct.
from_bytes(type, bytes) ==
    IF Len(bytes) = 3 /\ bytes[1] = "cbor" /\ bytes[2] = type THEN Some(bytes[3]) ELSE None

\* GrantState::is_valid
is_valid(grant, now) ==
    IF grant.revoked THEN FALSE
    ELSE IF grant.conditions # None
            /\ ~conditions_is_valid(grant.conditions[1], now, grant.use_count)
    THEN FALSE
    ELSE TRUE

\* GrantState::record_use
record_use(grant) == [grant EXCEPT !.use_count = @ + 1]

\* PermissionState::new
NewPermissionState == [grants |-> EmptyMap, by_recipient |-> EmptyMap, by_scope |-> EmptyMap]

\* PermissionState::apply_grant
apply_grant(ps, receipt_id, grantor, seq, payload) ==
    [grants |-> MapPut(ps.grants, receipt_id,
                       [grant_receipt_id |-> receipt_id, grantor |-> grantor,
                        recipient |-> payload.recipient, scope |-> payload.scope,
                        granted_at_seq |-> seq, conditions |-> payload.conditions,
                        revoked |-> FALSE, revoked_at_seq |-> None,
                        revoke_receipt_id |-> None, use_count |-> 0]),
     by_recipient |-> MapPut(ps.by_recipient, payload.recipient,
                             IF payload.recipient \in DOMAIN ps.by_recipient
                             THEN Append(ps.by_recipient[payload.recipient], receipt_id)
                             ELSE <<receipt_id>>),
     by_scope |-> MapPut(ps.by_scope, <<payload.recipient, payload.scope>>, receipt_id)]

\* PermissionState::apply_revoke
apply_revoke(ps, revoke_receipt_id, seq, payload) ==
    IF payload.grant_receipt_id \in DOMAIN ps.grants
    THEN [ps EXCEPT !.grants[payload.grant_receipt_id] =
                        [@ EXCEPT !.revoked = TRUE, !.revoked_at_seq = Some(seq),
                                  !.revoke_receipt_id = Some(revoke_receipt_id)]]
    ELSE ps

\* PermissionState::apply_receipt: the state afterwards and Ok or the error.
apply_receipt(ps, receipt) ==
    IF receipt.kind = "Grant"
    THEN LET payload == from_bytes("GrantPayload", receipt.payload)
         IN IF payload = None THEN [permissions |-> ps, result |-> "InvalidGrant"]
            ELSE [permissions |-> apply_grant(ps, ReceiptIdOf(receipt), receipt.author,
                                              receipt.seq, payload[1]),
                  result |-> "Ok"]
    ELSE IF receipt.kind = "Revoke"
    THEN LET payload == from_bytes("RevokePayload", receipt.payload)
         IN IF payload = None THEN [permissions |-> ps, result |-> "InvalidGrant"]
            ELSE [permissions |-> apply_revoke(ps, ReceiptIdOf(receipt), receipt.seq, payload[1]),
                  result |-> "Ok"]
    ELSE [permissions |-> ps, result |-> "Ok"]

\* The grant the by_scope index names for (principal, scope), if it is held
\* and valid at now.
valid_by_scope(ps, principal, scope, now) ==
    LET grant_id == MapGet(ps.by_scope, <<principal, scope>>)
        grant == IF grant_id # None THEN MapGet(ps.grants, grant_id[1]) ELSE None
    IN IF grant # None /\ is_valid(grant[1], now) THEN grant ELSE None

\* PermissionState::can_read_stream
can_read_stream(ps, principal, stream_id, now) ==
    IF valid_by_scope(ps, principal, ReadStream(stream_id), now) # None THEN TRUE
    ELSE IF valid_by_scope(ps, principal, Admin(stream_id), now) # None THEN TRUE
    ELSE FALSE

\* MemoryStore::get_receipts_range
get_receipts_range(s, stream_id, start, end) ==
    LET seqs == SortedSeq({q \in start..end : <<stream_id, q>> \in DOMAIN s.positions})
    IN [i \in 1..Len(seqs) |-> s.receipts[s.positions[<<stream_id, seqs[i]>>]]]

RECURSIVE apply_receipts(_, _)
\* The for loop of rebuild_permissions; the first error ends it.
apply_receipts(ps, receipts) ==
    IF receipts = <<>> THEN [permissions |-> ps, result |-> "Ok"]
    ELSE LET out == apply_receipt(ps, Head(receipts))
         IN IF out.result # "Ok" THEN out ELSE apply_receipts(out.permissions, Tail(receipts))

\* Kernel::rebuild_permissions
rebuild_permissions(ps, s, stream_id) ==
    LET state == get_stream_state(s, stream_id)
    IN IF state # None
       THEN apply_receipts(ps, get_receipts_range(s, stream_id, 1, state[1].head_seq))
       ELSE [permissions |-> ps, result |-> "Ok"]

\* Kernel::ingest_local
ingest_local(s, r) ==
    LET ins == insert_receipt(s, r)
    IN IF ins.result.tag = "Inserted"
       THEN [store |-> update_stream_state(ins.store, r), result |-> "Ok"]
       ELSE IF ins.result.tag = "AlreadyExists" THEN [store |-> ins.store, result |-> "Ok"]
       ELSE [store |-> ins.store, result |-> "Conflict"]

\* Kernel::create_stream by the kernel of the given author.
create_stream(s, author, name, payload) ==
    LET stream_id == Derive(author, name)
        state == get_stream_state(s, stream_id)
    IN IF state # None /\ state[1].head_seq > 0 THEN [store |-> s, result |-> "StreamExists"]
       ELSE ingest_local(s, Build(author, stream_id, 1, "StreamInit", None, 0, payload, author))

\* Kernel::append by the kernel of the given author.
append(s, author, stream_id, kind, payload) ==
    LET state == get_stream_state(s, stream_id)
    IN IF state = None \/ state[1].head_receipt_id = None
       THEN [store |-> s, result |-> "StreamNotFound"]
       ELSE ingest_local(s, Build(author, stream_id, state[1].head_seq + 1, kind,
                                  state[1].head_receipt_id, 0, payload, author))

\* Kernel::grant
grant(s, author, perms_stream_id, payload) ==
    append(s, author, perms_stream_id, "Grant", to_bytes("GrantPayload", payload))

\* Kernel::revoke
revoke(s, author, perms_stream_id, grant_receipt_id) ==
    append(s, author, perms_stream_id, "Revoke",
           to_bytes("RevokePayload", RevokePayload(grant_receipt_id)))

\* Kernel::tombstone by the kernel of the given author; a receipt keeps the
\* number of its refs, and every tombstone names one target.
tombstone(s, author, stream_id, target_receipt_id) ==
    LET state == get_stream_state(s, stream_id)
    IN IF state = None \/ state[1].head_receipt_id = None
       THEN [store |-> s, result |-> "StreamNotFound"]
       ELSE ingest_local(s, Build(author, stream_id, state[1].head_seq + 1, "Tombstone",
                                  state[1].head_receipt_id, 1, "", author))

\* The permission state while another specification runs.
PermIdle == permissions = NewPermissionState

\* ------------------------------------------------- specification: Kernel

\* The stream-machine variables while a store specification runs.
StreamIdle ==
    /\ st = NewStreamState("alice", "")
    /\ recorded = EmptyMap
    /\ hist = [op |-> "new", result |-> "None", distinct |-> TRUE, pending |-> FALSE,
               discipline |-> "new"]

\* The store variables while the stream-machine specification runs.
StoreIdle ==
    /\ store = NewMemoryStore
    /\ last = [op |-> "new", receipt |-> None, insert |-> None,
               result |-> [tag |-> "None", id |-> None, existing |-> None, err |-> ""]]

\* No sync session is running.
SyncIdle == node = EmptyMap

\* No ingest call is in flight.
TasksIdle == tasks = EmptyMap

\* The SQLite database is not in use.
SqliteIdle == sqlite = NewSqliteStore

Init == StoreIdle /\ StreamIdle /\ SyncIdle /\ PermIdle /\ TasksIdle /\ SqliteIdle

\* A caller hands receipt r to Kernel::ingest.
Ingest(r) ==
    LET out == ingest(store, r)
    IN /\ store' = out.store
       /\ last' = [op |-> "ingest", receipt |-> Some(r), insert |-> out.insert,
                   result |-> out.result]
       /\ UNCHANGED <<st, recorded, hist, node, permissions, tasks, sqlite>>

Next == \E r \in Receipts : Ingest(r)

Spec == Init /\ [][Next]_vars

\* ---------------------------------------------- specification: Store trait

\* Receipts handed to the store directly (the store validates nothing): two
\* conflicting receipts and a forged one at seq 1, the receipts at seq 2 and
\* MaxSeq, and the first receipt of the named stream.
StoreReceipts ==
    {r \in Receipts : r.stream_id = Derive("alice", "") /\ r.seq = 1 /\ HashOf(r.payload) = r.payload_hash}
    \cup {ChainReceipt("alice", "", 2, "hello"), ChainReceipt("alice", "", MaxSeq, "hello"),
          ChainReceipt("alice", "test", 1, "hello")}

\* Fork records handed to record_fork directly: the two receipts at seq 1.
ForkInputs == {r \in ValidReceipts : r.seq = 1 /\ r.stream_id = Derive("alice", "")}

NoResult == [tag |-> "None", id |-> None, existing |-> None, err |-> ""]

\* Store::insert_receipt is called with r.
SInsertReceipt(r) ==
    LET out == insert_receipt(store, r)
    IN /\ store' = out.store
       /\ last' = [op |-> "insert_receipt", receipt |-> Some(r),
                   insert |-> Some(out.result), result |-> NoResult]
       /\ UNCHANGED <<st, recorded, hist, node, permissions, tasks, sqlite>>

\* StoreExt::insert_and_update_stream is called with r.
SInsertAndUpdateStream(r) ==
    LET out == insert_and_update_stream(store, r)
    IN /\ store' = out.store
       /\ last' = [op |-> "insert_and_update_stream", receipt |-> Some(r),
                   insert |-> Some(out.result), result |-> NoResult]
       /\ UNCHANGED <<st, recorded, hist, node, permissions, tasks, sqlite>>

\* Store::record_fork is called for receipt r's position and id.
SRecordFork(r) ==
    /\ store' = record_fork(store, r.stream_id, r.seq, ReceiptIdOf(r))
    /\ last' = [op |-> "record_fork", receipt |-> Some(r), insert |-> None, result |-> NoResult]
    /\ UNCHANGED <<st, recorded, hist, node, permissions, tasks, sqlite>>

\* Store::add_gaps is called with one seq of the unnamed stream.
SAddGaps(seq) ==
    /\ store' = add_gaps(store, Derive("alice", ""), {seq})
    /\ last' = [op |-> "add_gaps", receipt |-> None, insert |-> None, result |-> NoResult]
    /\ UNCHANGED <<st, recorded, hist, node, permissions, tasks, sqlite>>

\* Store::remove_gap is called with one seq of the unnamed stream.
SRemoveGap(seq) ==
    /\ store' = remove_gap(store, Derive("alice", ""), seq)
    /\ last' = [op |-> "remove_gap", receipt |-> None, insert |-> None, result |-> NoResult]
    /\ UNCHANGED <<st, recorded, hist, node, permissions, tasks, sqlite>>

StoreNext ==
    \/ \E r \in StoreReceipts : SInsertReceipt(r)
    \/ \E r \in StoreReceipts : SInsertAndUpdateStream(r)
    \/ \E r \in ForkInputs : SRecordFork(r)
    \/ \E seq \in {MaxSeq} : SAddGaps(seq)
    \/ \E seq \in {MaxSeq} : SRemoveGap(seq)

StoreSpec == Init /\ [][StoreNext]_vars

\* ---------------------------------------------------- claims: the store

\* The receipt of the last call.
LastReceipt == last.receipt[1]

\* C1: insert_receipt(R) for a receipt R that is already stored returns
\* AlreadyExists and leaves the whole store as it was: the receipts, the
\* position index, the stream states, the gaps and the fork log.
C1_InsertIdempotent ==
    [][(/\ last'.op = "insert_receipt"
        /\ ReceiptIdOf(last'.receipt[1]) \in DOMAIN store.receipts)
       => (last'.insert = Some(AlreadyExists) /\ store' = store)]_vars

\* C1 happens: a stored receipt was inserted again into a store that holds
\* stream states, gaps and fork evidence.
C1_Witness ==
    /\ last.op = "insert_receipt"
    /\ last.insert = Some(AlreadyExists)
    /\ ReceiptIdOf(LastReceipt) \in DOMAIN store.receipts
    /\ store.streams # EmptyMap
    /\ \E k \in DOMAIN store.gaps : store.gaps[k] # {}
    /\ store.forks # EmptyMap

\* C2: insert_receipt(R) returns Conflict exactly when R's id is not stored
\* and a different id is stored at R's (stream_id, seq); the Conflict names
\* that stored id, R stays unstored and the position keeps the first receipt.
C2_ConflictIffDistinctAtPosition ==
    [][last'.op = "insert_receipt" =>
         LET r == last'.receipt[1]
             id == ReceiptIdOf(r)
             pos == <<r.stream_id, r.seq>>
             distinctAtPos == /\ id \notin DOMAIN store.receipts
                              /\ pos \in DOMAIN store.positions
                              /\ store.positions[pos] # id
             res == last'.insert[1]
         IN /\ (res.tag = "Conflict") <=> distinctAtPos
            /\ res.tag = "Conflict" =>
                  /\ res.existing = Some(store.positions[pos])
                  /\ id \notin DOMAIN store'.receipts
                  /\ store'.positions[pos] = store.positions[pos]]_vars

\* C2 happens: an insert_receipt call has returned Conflict.
C2_Witness ==
    /\ last.op = "insert_receipt"
    /\ last.insert # None
    /\ last.insert[1].tag = "Conflict"
    /\ last.insert[1].existing = get_receipt_by_position(store, LastReceipt.stream_id, LastReceipt.seq)
    /\ last.insert[1].existing # Some(ReceiptIdOf(LastReceipt))

\* --------------------------------------------------- claims: the Kernel

\* Kernel::ingest has just returned Conflict.
IngestConflict == last.op = "ingest" /\ last.result.tag = "Conflict"

\* C3: when Kernel::ingest of R2 returns Conflict against the accepted R1 at
\* the same (S, q), existing is id(R1) and the stream state of S has health
\* Forked at q listing id(R1) and id(R2).
C3_ConflictMarksStreamForked ==
    IngestConflict =>
        LET r == LastReceipt
            got == get_stream_state(store, r.stream_id)
        IN /\ last.result.existing = get_receipt_by_position(store, r.stream_id, r.seq)
           /\ got # None
           /\ got[1].health = Forked(r.seq, last.result.existing \o <<ReceiptIdOf(r)>>)

\* C4: after a Kernel::ingest that ended in Conflict between the stored R1
\* and the incoming R2 at (S, q), get_forks(S) holds evidence at q for both
\* id(R1) and id(R2).
C4_ForkLogHoldsBothIds ==
    IngestConflict =>
        LET r == LastReceipt
            forks == get_forks(store, r.stream_id)
        IN \A id \in {last.result.existing[1], ReceiptIdOf(r)} :
              \E i \in 1..Len(forks) : forks[i].seq = r.seq /\ forks[i].receipt_id = id

\* C5: a Kernel that ingests the StreamInit R1 and then the Data receipt R2
\* (seq 2, prev = id(R1)) of a stream S, whatever name S is derived from,
\* has stream state head_seq = 2, head_receipt_id = id(R2), no gaps, Healthy.
C5_AppendChainState ==
    \A a \in Authors, n \in Names :
        LET R1 == ChainReceipt(a, n, 1, "hello")
            R2 == ChainReceipt(a, n, 2, "hello")
            got == get_stream_state(store, Derive(a, n))
        IN (/\ DOMAIN store.receipts = {ReceiptIdOf(R1), ReceiptIdOf(R2)}
            /\ last.op = "ingest" /\ last.receipt = Some(R2) /\ last.result.tag = "Accepted")
           => /\ got # None
              /\ got[1].head_seq = 2
              /\ got[1].head_receipt_id = Some(ReceiptIdOf(R2))
              /\ got[1].gaps = {}
              /\ got[1].health = Healthy

\* C6: once a Kernel has ingested the receipts at all seqs 1..n of a stream,
\* in any order, and nothing else, the stream state has head_seq = n, no
\* gaps and health Healthy (checked on the stream with the empty name).
C6_AllSeqsIngestedGiveFullHead ==
    \A n \in 1..MaxSeq :
        LET S == Derive("alice", "")
            got == get_stream_state(store, S)
        IN (DOMAIN store.positions = {<<S, q>> : q \in 1..n})
           => /\ got # None
              /\ got[1].head_seq = n
              /\ got[1].gaps = {}
              /\ got[1].health = Healthy

\* C19: when Kernel::ingest accepts a receipt at seq > 1 while a receipt is
\* stored at seq - 1 of the same stream, the accepted receipt's
\* prev_receipt_id is the id of that stored receipt.
C19_AcceptedPrevMatchesStored ==
    (last.op = "ingest" /\ last.result.tag = "Accepted" /\ LastReceipt.seq > 1) =>
        LET before == get_receipt_by_position(store, LastReceipt.stream_id, LastReceipt.seq - 1)
        IN before # None => LastReceipt.prev_receipt_id = before

\* ------------------------------------------ specification: StreamState

\* The receipt ids a caller may pass for seq: the id of the chain receipt,
\* and at the seqs of ForkSeqs the id of the conflicting receipt too.
IdsAt(seq) ==
    {ReceiptIdOf(ChainReceipt("alice", "", seq, p)) :
        p \in IF seq \in ForkSeqs THEN Payloads ELSE {"hello"}}

\* The lookup closures a caller may hand to try_advance_head: "exact" finds
\* the receipts recorded so far, "none" is the closure of the Kernel.
LookupModes == {"exact", "none"}

LookupOf(mode, rec) == IF mode = "exact" THEN rec ELSE NoLookup

\* hist.discipline: "exact" ("none") while every record_receipt so far was
\* followed by a try_advance_head pass with the exact (the Kernel's) lookup
\* before the next call; "other" once that is broken.
\* hist.pending: no try_advance_head has followed the last record_receipt.
\* hist.distinct: no seq was passed to record_receipt twice.

\* record_receipt(seq, receipt_id) is called on the stream state; recorded
\* keeps, as the store's position index does, the first id seen at a seq.
RecordReceipt(seq, receipt_id) ==
    LET out == record_receipt(st, seq, receipt_id)
    IN /\ st' = out.state
       /\ recorded' = IF seq \in DOMAIN recorded THEN recorded
                      ELSE MapPut(recorded, seq, receipt_id)
       /\ hist' = [op |-> "record_receipt", result |-> out.result,
                   distinct |-> hist.distinct /\ seq \notin DOMAIN recorded,
                   pending |-> TRUE,
                   discipline |-> IF hist.pending THEN "other" ELSE hist.discipline]
       /\ UNCHANGED <<store, last, node, permissions, tasks, sqlite>>

\* try_advance_head is called with a lookup closure of the given mode.
TryAdvanceHead(mode) ==
    LET out == try_advance_head(st, LookupOf(mode, recorded))
    IN /\ st' = out.state
       /\ hist' = [op |-> "try_advance_head",
                   result |-> IF out.result = None THEN "None" ELSE "Some",
                   distinct |-> hist.distinct,
                   pending |-> FALSE,
                   discipline |-> IF hist.discipline \in {"new", mode} THEN mode
                                  ELSE "other"]
       /\ UNCHANGED <<store, last, recorded, node, permissions, tasks, sqlite>>

\* mark_forked is called with the two conflicting ids at at_seq.
MarkForked(at_seq) ==
    /\ st' = mark_forked(st, at_seq,
                         <<ReceiptIdOf(ChainReceipt("alice", "", at_seq, "hello")),
                           ReceiptIdOf(ChainReceipt("alice", "", at_seq, "world"))>>)
    /\ hist' = [hist EXCEPT !.op = "mark_forked", !.result = "None"]
    /\ UNCHANGED <<store, last, recorded, node, permissions, tasks, sqlite>>

StreamNext ==
    \/ \E seq \in 1..MaxSeq : \E receipt_id \in IdsAt(seq) : RecordReceipt(seq, receipt_id)
    \/ \E mode \in LookupModes : TryAdvanceHead(mode)
    \/ \E at_seq \in ForkSeqs : MarkForked(at_seq)

StreamSpec == Init /\ [][StreamNext]_vars

\* ------------------------------------------- claims: the stream machine

\* C7 as stated: every seq in 1..known_max_seq is in gaps or at most
\* head_seq.
C7_GapsAndHeadCoverKnownSeqs ==
    \A i \in 1..st.known_max_seq : i \in st.gaps \/ i <= st.head_seq

\* C7, amended: after any record_receipt calls on one stream, every seq in
\* 1..known_max_seq is in gaps, or at most head_seq, or the seq of a
\* recorded receipt.
C7_GapsHeadAndRecordedCoverKnownSeqs ==
    \A i \in 1..st.known_max_seq :
        i \in st.gaps \/ i <= st.head_seq \/ i \in DOMAIN recorded

\* C7 happens: a receipt recorded beyond the head has opened a gap.
C7_Witness ==
    /\ st.head_seq >= 1
    /\ st.known_max_seq > st.head_seq + 1
    /\ st.gaps # {}
    /\ st.known_max_seq \notin st.gaps
    /\ st.known_max_seq \in DOMAIN recorded

\* A receipt is recorded at i and i is not marked as a gap.
Present(i) == i \notin st.gaps /\ i \in DOMAIN recorded

\* The largest n such that every i in 1..n is present.
MaxContiguous ==
    CHOOSE n \in 0..MaxSeq :
        /\ \A i \in 1..n : Present(i)
        /\ \A m \in (n + 1)..MaxSeq : \E i \in 1..m : ~Present(i)

\* Every record_receipt so far had a fresh seq and was followed by the
\* advance-head pass with a lookup of the given mode.
Disciplined(mode) ==
    /\ hist.distinct
    /\ ~hist.pending
    /\ hist.discipline = mode

\* C8: when record_receipt calls with distinct seqs are each followed by
\* try_advance_head with a lookup that finds exactly the recorded receipts,
\* head_seq is the largest n with every i in 1..n recorded and not in gaps.
C8_HeadIsMaxContiguous ==
    Disciplined("exact") => st.head_seq = MaxContiguous

\* C8 happens: the advance-head pass has moved the head over receipts that
\* were recorded before the head reached them.
C8_Witness ==
    /\ Disciplined("exact")
    /\ hist.op = "try_advance_head"
    /\ hist.result = "Some"
    /\ st.head_seq = MaxSeq

\* C9: each seq in gaps lies in 1..known_max_seq and no receipt has been
\* recorded at it.
C9_GapsHoldOnlyMissingSeqs ==
    hist.distinct =>
        \A g \in st.gaps : g >= 1 /\ g <= st.known_max_seq /\ g \notin DOMAIN recorded

\* All orders in which the seqs of S can be accepted.
Orders(S) ==
    {f \in [1..Cardinality(S) -> S] : \A i, j \in 1..Cardinality(S) : f[i] = f[j] => i = j}

RECURSIVE Replay(_, _, _, _)
\* The stream state after accepting the recorded receipts in the given
\* order from a new state: record_receipt, then the advance-head pass.
Replay(s, rec, order, mode) ==
    IF order = <<>> THEN s
    ELSE LET seq == Head(order)
             rec1 == MapPut(rec, seq, recorded[seq])
             s1 == record_receipt(s, seq, recorded[seq]).state
             s2 == try_advance_head(s1, LookupOf(mode, rec1)).state
         IN Replay(s2, rec1, Tail(order), mode)

\* C10: for a fixed set of receipts of one stream, every order of accepting
\* them (record_receipt, then the advance-head pass) ends with the same
\* head_seq, the same gaps and the same health.
C10_AcceptOrderDoesNotMatter ==
    \A mode \in LookupModes :
        (Disciplined(mode) /\ st.health.tag # "Forked") =>
            \A order \in Orders(DOMAIN recorded) :
                LET other == Replay(NewStreamState("alice", ""), EmptyMap, order, mode)
                IN /\ other.head_seq = st.head_seq
                   /\ other.gaps = st.gaps
                   /\ other.health = st.health

\* The row of the record transition table that applies to record_receipt(seq,
\* id) on state s, read as a condition on the state t after the call and the
\* RecordResult res; health_ok is what the third row says about the health.
TableRow(s, t, seq, id, res, health_ok) ==
    IF seq = s.head_seq + 1
    THEN res = "Accepted" /\ t.head_seq = seq /\ t.head_receipt_id = Some(id)
    ELSE IF seq \in s.gaps
    THEN /\ res = "GapFilled"
         /\ t.gaps = s.gaps \ {seq}
         /\ t.head_seq = s.head_seq
         /\ t.head_receipt_id = s.head_receipt_id
    ELSE IF seq > s.head_seq + 1
    THEN /\ res = "AcceptedWithGaps"
         /\ t.gaps = s.gaps \cup ((s.head_seq + 1)..(seq - 1))
         /\ t.known_max_seq = (IF seq > s.known_max_seq THEN seq ELSE s.known_max_seq)
         /\ health_ok
    ELSE res = "Duplicate"

\* C11 as stated: record_receipt(seq, id) behaves as the first matching row
\* of the transition table, and the AcceptedWithGaps row leaves the health
\* at HasGaps.
C11_RecordFollowsTable ==
    [][\A seq \in 1..MaxSeq : \A id \in IdsAt(seq) :
          RecordReceipt(seq, id) =>
              TableRow(st, st', seq, id, hist'.result, st'.health.tag = "HasGaps")]_vars

\* C11, amended: record_receipt(seq, id) behaves as the first matching row
\* of the transition table; the AcceptedWithGaps row leaves the health at
\* HasGaps listing the gaps unless the state was Forked, and then the health
\* stays as it was.
C11_RecordFollowsTableUnlessForked ==
    [][\A seq \in 1..MaxSeq : \A id \in IdsAt(seq) :
          RecordReceipt(seq, id) =>
              TableRow(st, st', seq, id, hist'.result,
                       IF st.health.tag = "Forked" THEN st'.health = st.health
                       ELSE st'.health = HasGaps(st'.gaps))]_vars

\* C11 happens: record_receipt has returned AcceptedWithGaps on a forked
\* state, leaving gaps behind the recorded seq.
C11_Witness ==
    /\ hist.op = "record_receipt"
    /\ hist.result = "AcceptedWithGaps"
    /\ st.health.tag = "Forked"
    /\ st.gaps # {}
    /\ st.known_max_seq > st.head_seq + 1

\* C12: once the health is Forked, a record_receipt or try_advance_head call
\* leaves it Forked with the same at_seq and the same receipt ids, also when
\* the call advances the head or empties the gaps.
C12_ForkedIsSticky ==
    [][(st.health.tag = "Forked" /\ hist'.op \in {"record_receipt", "try_advance_head"})
       => st'.health = st.health]_vars

\* C12 happens: on a forked state try_advance_head has advanced the head to
\* the last known seq with no gap left, and the state is still Forked.
C12_Witness ==
    /\ hist.op = "try_advance_head"
    /\ hist.result = "Some"
    /\ st.health.tag = "Forked"
    /\ st.health.at_seq \in ForkSeqs
    /\ Len(st.health.receipts) = 2
    /\ st.gaps = {}
    /\ st.head_seq = MaxSeq

\* C13: on a state that is not Forked, after a record_receipt or
\* try_advance_head call the health is Healthy exactly when gaps is empty,
\* and otherwise it is HasGaps whose missing list holds each seq of gaps
\* once and nothing else.
C13_HealthMirrorsGaps ==
    (hist.op \in {"record_receipt", "try_advance_head"} /\ st.health.tag # "Forked") =>
        /\ (st.health.tag = "Healthy") <=> (st.gaps = {})
        /\ st.health.tag # "Healthy" =>
              /\ st.health.tag = "HasGaps"
              /\ {st.health.missing[i] : i \in 1..Len(st.health.missing)} = st.gaps
              /\ Len(st.health.missing) = Cardinality(st.gaps)

\* C13 happens: a record_receipt call has filled one of two gaps of a state
\* that is not Forked, and the health lists the gap that is left.
C13_Witness ==
    /\ hist.op = "record_receipt"
    /\ hist.result = "GapFilled"
    /\ st.health.tag = "HasGaps"
    /\ st.gaps = {1}
    /\ st.health.missing = <<1>>

\* C38: record_receipt with seq <= head_seq and seq not in gaps returns
\* Duplicate and leaves head_seq, head_receipt_id, known_max_seq, gaps and
\* health as they were, whichever receipt id is passed for that seq.
C38_DuplicateChangesNothing ==
    [][\A seq \in 1..MaxSeq : \A receipt_id \in IdsAt(seq) :
          (RecordReceipt(seq, receipt_id) /\ seq <= st.head_seq /\ seq \notin st.gaps)
              => /\ hist'.result = "Duplicate"
                 /\ st'.head_seq = st.head_seq
                 /\ st'.head_receipt_id = st.head_receipt_id
                 /\ st'.known_max_seq = st.known_max_seq
                 /\ st'.gaps = st.gaps
                 /\ st'.health = st.health]_vars

\* C38 happens: a seq at or below the head was passed again, at a seq where
\* the caller has two ids to pass, and the call answered Duplicate.
C38_Witness ==
    /\ hist.op = "record_receipt"
    /\ hist.result = "Duplicate"
    /\ ~hist.distinct
    /\ \E seq \in ForkSeqs : seq = st.head_seq

\* C40: in every stream state reached from StreamState::new by
\* record_receipt and try_advance_head calls, head_seq <= known_max_seq and
\* every seq g in gaps satisfies head_seq < g < known_max_seq.
C40_GapsLieBetweenHeadAndMax ==
    /\ st.head_seq <= st.known_max_seq
    /\ \A g \in st.gaps : st.head_seq < g /\ g < st.known_max_seq

\* C40 happens: the head has advanced and gaps remain between it and the
\* highest seq heard of.
C40_Witness ==
    /\ st.head_seq >= 1
    /\ st.gaps # {}
    /\ hist.op \in {"record_receipt", "try_advance_head"}
    /\ st.health.tag = "HasGaps"

\* ------------------------------------------------------------ sync session

Nodes == {"A", "B"}

\* The other node of the two.
Peer(n) == IF n = "A" THEN "B" ELSE "A"

\* messages.rs PROTOCOL_VERSION
PROTOCOL_VERSION == 0

\* SyncConfig.max_batch_size of both sessions (SyncConfig::default has 50).
max_batch_size == 2

\* SyncConfig::default: validate_receipts is true.
validate_receipts == TRUE

\* An envelope of the transport: the sender and a SyncMessage.
Msg(from, type, body) == [from |-> from, type |-> type, body |-> body]

\* SeqRange::Range { start, end }
Range(start, end) == [kind |-> "Range", start |-> start, end |-> end, list |-> <<>>]

\* SeqRange::List(seqs)
List(seqs) == [kind |-> "List", start |-> 0, end |-> 0, list |-> seqs]

\* SeqRange::to_vec
to_vec(seqs) ==
    IF seqs.kind = "Range"
    THEN [i \in 1..(seqs.end - seqs.start + 1) |-> seqs.start + i - 1]
    ELSE seqs.list

\* messages.rs limits
MAX_STREAMS_OF_INTEREST == 100
MAX_STREAM_HEADS == 1000
MAX_RECEIPT_REQUESTS == 100
MAX_SEQ_LIST == 100
MAX_RECEIPTS_PER_MESSAGE == 50
MAX_ACK_IDS == 100

\* SyncMessage::validate_limits
validate_limits(msg) ==
    IF msg.type = "Hello"
    THEN IF Cardinality(msg.body.streams_of_interest) > MAX_STREAMS_OF_INTEREST
         THEN "too many streams_of_interest" ELSE "Ok"
    ELSE IF msg.type = "StreamHeads"
    THEN IF Cardinality(msg.body) > MAX_STREAM_HEADS THEN "too many stream heads" ELSE "Ok"
    ELSE IF msg.type = "NeedReceipts"
    THEN IF Len(msg.body) > MAX_RECEIPT_REQUESTS THEN "too many receipt requests"
         ELSE IF \E i \in 1..Len(msg.body) :
                    /\ msg.body[i].seqs.kind = "List"
                    /\ Len(msg.body[i].seqs.list) > MAX_SEQ_LIST
         THEN "too many seqs in list" ELSE "Ok"
    ELSE IF msg.type = "Receipts"
    THEN IF Len(msg.body) > MAX_RECEIPTS_PER_MESSAGE THEN "too many receipts" ELSE "Ok"
    ELSE IF msg.type = "Ack"
    THEN IF Len(msg.body) > MAX_ACK_IDS THEN "too many ack IDs" ELSE "Ok"
    ELSE "Ok"

\* SyncReport::default
NewSyncReport ==
    [sent_count |-> 0, received_count |-> 0, duplicate_count |-> 0, invalid_count |-> 0,
     streams_synced |-> {}, success |-> FALSE]

\* MemoryStore::get_all_stream_heads: the states that have a head receipt,
\* in no particular order.
get_all_stream_heads(s) ==
    {[stream_id |-> s.streams[k].stream_id, head_seq |-> s.streams[k].head_seq,
      head_receipt_id |-> s.streams[k].head_receipt_id[1]] :
        k \in {x \in DOMAIN s.streams : s.streams[x].head_receipt_id # None}}

\* The heads send_stream_heads puts into its StreamHeads message.
stream_heads(s, streams_of_interest) ==
    {h \in get_all_stream_heads(s) :
        streams_of_interest = {} \/ h.stream_id \in streams_of_interest}

RECURSIVE compute_needs_from_first(_, _, _)
\* compute_needs that requests every stream from seq 1.
compute_needs_from_first(s, peer_heads, order) ==
    IF order = <<>> THEN <<>>
    ELSE LET stream_id == Head(order)
             peer_head == peer_heads[stream_id]
             got == get_stream_state(s, stream_id)
             our_head_seq == IF got # None THEN got[1].head_seq ELSE 0
             gaps == get_gaps(s, stream_id)
         IN (IF peer_head.head_seq > our_head_seq
             THEN <<[stream_id |-> stream_id, seqs |-> Range(1, peer_head.head_seq)]>>
             ELSE <<>>)
            \o (IF gaps # <<>>
                THEN <<[stream_id |-> stream_id, seqs |-> List(gaps)]>>
                ELSE <<>>)
            \o compute_needs_from_first(s, peer_heads, Tail(order))

RECURSIVE compute_needs(_, _, _)
\* SyncSession::compute_needs, visiting peer_heads in the given order.
compute_needs(s, peer_heads, order) ==
    IF order = <<>> THEN <<>>
    ELSE LET stream_id == Head(order)
             peer_head == peer_heads[stream_id]
             got == get_stream_state(s, stream_id)
             our_head_seq == IF got # None THEN got[1].head_seq ELSE 0
             gaps == get_gaps(s, stream_id)
         IN (IF peer_head.head_seq > our_head_seq
             THEN <<[stream_id |-> stream_id,
                     seqs |-> Range(our_head_seq + 1, peer_head.head_seq)]>>
             ELSE <<>>)
            \o (IF gaps # <<>>
                THEN <<[stream_id |-> stream_id, seqs |-> List(gaps)]>>
                ELSE <<>>)
            \o compute_needs(s, peer_heads, Tail(order))

RECURSIVE chunks(_, _)
\* slice::chunks
chunks(items, size) ==
    IF items = <<>> THEN <<>>
    ELSE IF Len(items) <= size THEN <<items>>
    ELSE <<SubSeq(items, 1, size)>> \o chunks(SubSeq(items, size + 1, Len(items)), size)

\* process_receipt without the validation step.
process_receipt_unvalidated(s, receipt) ==
    LET ins == insert_receipt(s, receipt)
    IN [store |-> ins.store,
        result |-> IF ins.result.tag = "Inserted" THEN "Ok(true)" ELSE "Ok(false)"]

\* process_receipt that stores a receipt only when its predecessor is stored.
process_receipt_in_order_only(s, receipt) ==
    IF validate_receipts /\ validate_receipt(receipt) # "Ok"
    THEN [store |-> s, result |-> "Err"]
    ELSE IF receipt.seq > 1 /\ <<receipt.stream_id, receipt.seq - 1>> \notin DOMAIN s.positions
    THEN [store |-> s, result |-> "Ok(false)"]
    ELSE LET ins == insert_receipt(s, receipt)
         IN [store |-> ins.store,
             result |-> IF ins.result.tag = "Inserted" THEN "Ok(true)" ELSE "Ok(false)"]

\* SyncSession::process_receipt: the new store and the Result<bool>.
process_receipt(s, receipt) ==
    IF validate_receipts /\ validate_receipt(receipt) # "Ok"
    THEN [store |-> s, result |-> "Err"]
    ELSE LET ins == insert_receipt(s, receipt)
         IN [store |-> ins.store,
             result |-> IF ins.result.tag = "Inserted" THEN "Ok(true)" ELSE "Ok(false)"]

RECURSIVE process_receipts(_, _, _, _)
\* The for loop of receive_receipts over the receipts of one Receipts
\* message: the store, the received ids and the report after it.
process_receipts(s, received, report, receipts) ==
    IF receipts = <<>> THEN [store |-> s, received |-> received, report |-> report]
    ELSE LET receipt == Head(receipts)
             out == process_receipt(s, receipt)
         IN IF out.result = "Ok(true)"
            THEN process_receipts(out.store, Append(received, ReceiptIdOf(receipt)),
                                  [report EXCEPT !.received_count = @ + 1,
                                                 !.streams_synced = @ \cup {receipt.stream_id}],
                                  Tail(receipts))
            ELSE IF out.result = "Ok(false)"
            THEN process_receipts(out.store, received,
                                  [report EXCEPT !.duplicate_count = @ + 1], Tail(receipts))
            ELSE process_receipts(out.store, received,
                                  [report EXCEPT !.invalid_count = @ + 1], Tail(receipts))

RECURSIVE requested_positions(_)
\* The (stream_id, seq) pairs of a NeedReceipts message, in request order.
requested_positions(requests) ==
    IF requests = <<>> THEN <<>>
    ELSE LET request == Head(requests)
             seqs == to_vec(request.seqs)
         IN [i \in 1..Len(seqs) |-> <<request.stream_id, seqs[i]>>]
            \o requested_positions(Tail(requests))

RECURSIVE gather_receipts(_, _, _, _, _, _)
\* The loops of handle_peer_requests over one NeedReceipts message: the
\* Receipts messages sent on the way, the receipts still unsent and the
\* number of receipts gathered.  A position with nothing stored is passed
\* over (the loop body does nothing for it).
gather_receipts(n, s, positions, receipts, msgs, sent) ==
    LET stored == SelectSeq(positions,
                            LAMBDA p : get_receipt_by_position(s, p[1], p[2]) # None)
    IN IF stored = <<>> THEN [receipts |-> receipts, msgs |-> msgs, sent |-> sent]
       ELSE LET got == get_receipt_by_position(s, Head(stored)[1], Head(stored)[2])
                more == Append(receipts, s.receipts[got[1]])
            IN IF Len(more) >= max_batch_size
               THEN gather_receipts(n, s, Tail(stored), <<>>,
                                    Append(msgs, Msg(n, "Receipts", more)), sent + 1)
               ELSE gather_receipts(n, s, Tail(stored), more, msgs, sent + 1)

\* convergence.rs compute_stream_state_hash: Blake3 over the stream id and
\* the ids of the receipts stored at 1..head_seq.
compute_stream_state_hash(s, stream_id) ==
    LET got == get_stream_state(s, stream_id)
        head == IF got # None THEN got[1].head_seq ELSE 0
        ids == SortedSeq({q \in 1..head : <<stream_id, q>> \in DOMAIN s.positions})
    IN IF got = None \/ head = 0 \/ ids = <<>> THEN None
       ELSE Some(<<"blake3", "chainge-state-v0:", stream_id,
                   [i \in 1..Len(ids) |-> s.positions[<<stream_id, ids[i]>>]]>>)

\* --------------------------------------------- specification: sync session

\* What a node went through before the session.  A valid receipt came in
\* through Kernel::ingest; an invalid one was written by a caller of
\* StoreExt::insert_and_update_stream, which validates nothing.
FeedOne(s, r) ==
    IF validate_receipt(r) = "Ok" THEN ingest(s, r).store
    ELSE insert_and_update_stream(s, r).store

RECURSIVE FeedAll(_, _)
FeedAll(s, feed) == IF feed = <<>> THEN s ELSE FeedAll(FeedOne(s, Head(feed)), Tail(feed))

\* The first n receipts of author a's stream, in order.
Chain(a, n) == [i \in 1..n |-> ChainReceipt(a, "", i, "hello")]

\* The receipt at seq 2 of alice's stream with a forged signature.
ForgedReceipt == [ChainReceipt("alice", "", 2, "hello") EXCEPT !.signer = "mallory"]

\* A receipt far ahead in alice's stream: with nothing else of the stream
\* stored, more than MAX_SEQ_LIST seqs are missing before it.
\* Its predecessor is held by no node; prev names it by an id of its own.
FarReceipt ==
    Build("alice", Derive("alice", ""), MAX_SEQ_LIST + 2, "Data",
          Some(HashOf(<<"alice", MAX_SEQ_LIST + 1>>)), 0, "hello", "alice")

\* What a node may hold when the session starts: a prefix of alice's stream,
\* with or without the first receipt of bob's stream; alice's stream with the
\* seqs between 1 and MaxSeq missing; only a conflicting receipt at seq 2;
\* alice's stream with the forged receipt at seq 2; only a receipt far
\* ahead in alice's stream.
Feeds ==
    {Chain("alice", n) : n \in 0..MaxSeq}
    \cup {Chain("alice", 1) \o Chain("bob", 1), Chain("alice", MaxSeq) \o Chain("bob", 1)}
    \cup {<<ChainReceipt("alice", "", 1, "hello"), ChainReceipt("alice", "", MaxSeq, "hello")>>}
    \cup {<<ChainReceipt("alice", "", 2, "world")>>}
    \cup {<<ChainReceipt("alice", "", 1, "hello"), ForgedReceipt,
            ChainReceipt("alice", "", 3, "hello")>>}
    \cup {<<FarReceipt>>}

\* SyncSession::new over a store, about to run sync_with; before keeps the
\* store as it was when the session started.
NewSyncSession(s) ==
    [store |-> s, before |-> s, pc |-> "send_hello", inbox |-> <<>>,
     streams_of_interest |-> {}, peer_id |-> None, peer_heads |-> EmptyMap,
     needs |-> <<>>, received |-> <<>>, report |-> NewSyncReport, error |-> "",
     protocol_version |-> PROTOCOL_VERSION]

\* SyncSession::with_streams
with_streams(session, streams) == [session EXCEPT !.streams_of_interest = streams]

\* The interest lists a session may be given: none, or bob's stream only.
Interests == {{}, {Derive("bob", "")}}

\* The PROTOCOL_VERSION the build of a node may carry: this one or the next.
Versions == {PROTOCOL_VERSION, PROTOCOL_VERSION + 1}

\* Node A runs this build; node B runs this build or the next one.
SyncInit ==
    /\ StoreIdle
    /\ StreamIdle
    /\ PermIdle
    /\ TasksIdle
    /\ SqliteIdle
    /\ \E fa, fb \in Feeds, ia, ib \in Interests, vb \in Versions :
          node = [n \in Nodes |->
                    IF n = "A"
                    THEN with_streams(NewSyncSession(FeedAll(NewMemoryStore, fa)), ia)
                    ELSE [with_streams(NewSyncSession(FeedAll(NewMemoryStore, fb)), ib)
                            EXCEPT !.protocol_version = vb]]

\* Transport::send of msgs, in order, to node `to`.
Send(nd, to, msgs) == [nd EXCEPT ![to].inbox = @ \o msgs]

\* Fail recording the error without ending sync_with.
Fail_without_return(nd, n, error) == [nd EXCEPT ![n].error = error]

\* sync_with returns the error.
Fail(nd, n, error) == [nd EXCEPT ![n].pc = "failed", ![n].error = error]

\* Transport::recv_timeout hands over the first message of the inbox.
Recv(nd, n) == [nd EXCEPT ![n].inbox = Tail(@)]

\* The positions of sync_with at which a session waits in recv_timeout.
RecvStates == {"receive_hello", "receive_stream_heads", "receive_receipts", "handle_peer_requests"}

\* Node p will send nothing unless it first receives something.
Quiet(p) ==
    \/ node[p].pc \in {"done", "failed"}
    \/ node[p].pc \in RecvStates /\ node[p].inbox = <<>>

\* send_hello
SendHello(n) ==
    /\ node[n].pc = "send_hello"
    /\ node' = Send([node EXCEPT ![n].pc = "receive_hello"], Peer(n),
                    <<Msg(n, "Hello", [node_id |-> n,
                                       protocol_version |-> node[n].protocol_version,
                                       streams_of_interest |-> node[n].streams_of_interest])>>)
    /\ UNCHANGED <<store, last, st, recorded, hist, permissions, tasks, sqlite>>

\* receive_hello, when a message arrives
ReceiveHello(n) ==
    /\ node[n].pc = "receive_hello"
    /\ node[n].inbox # <<>>
    /\ LET msg == Head(node[n].inbox)
           nd == Recv(node, n)
       IN node' = IF msg.type # "Hello" THEN Fail(nd, n, "InvalidMessage")
                  ELSE IF msg.from # Peer(n) THEN Fail(nd, n, "InvalidMessage")
                  ELSE IF msg.body.protocol_version # node[n].protocol_version
                  THEN Fail(nd, n, "VersionMismatch")
                  ELSE [nd EXCEPT ![n].peer_id = Some(msg.body.node_id),
                                  ![n].pc = "send_stream_heads"]
    /\ UNCHANGED <<store, last, st, recorded, hist, permissions, tasks, sqlite>>

\* send_stream_heads
SendStreamHeads(n) ==
    /\ node[n].pc = "send_stream_heads"
    /\ node' = Send([node EXCEPT ![n].pc = "receive_stream_heads"], Peer(n),
                    <<Msg(n, "StreamHeads",
                          stream_heads(node[n].store, node[n].streams_of_interest))>>)
    /\ UNCHANGED <<store, last, st, recorded, hist, permissions, tasks, sqlite>>

\* receive_stream_heads, when a message arrives
ReceiveStreamHeads(n) ==
    /\ node[n].pc = "receive_stream_heads"
    /\ node[n].inbox # <<>>
    /\ LET msg == Head(node[n].inbox)
           nd == Recv(node, n)
           heads == msg.body
       IN node' = IF msg.type = "StreamHeads"
                  THEN [nd EXCEPT ![n].peer_heads =
                                      [x \in DOMAIN @ \cup {h.stream_id : h \in heads} |->
                                          IF \E h \in heads : h.stream_id = x
                                          THEN CHOOSE h \in heads : h.stream_id = x
                                          ELSE @[x]],
                                  ![n].pc = "compute_needs"]
                  ELSE IF msg.type = "Error" THEN Fail(nd, n, "PeerError")
                  ELSE Fail(nd, n, "InvalidMessage")
    /\ UNCHANGED <<store, last, st, recorded, hist, permissions, tasks, sqlite>>

\* compute_needs; the HashMap peer_heads is visited in some order.
ComputeNeeds(n) ==
    /\ node[n].pc = "compute_needs"
    /\ \E order \in Orders(DOMAIN node[n].peer_heads) :
          LET needs == compute_needs(node[n].store, node[n].peer_heads, order)
          IN node' = [node EXCEPT ![n].needs = needs,
                                  ![n].pc = IF needs # <<>> THEN "request_receipts"
                                            ELSE "handle_peer_requests"]
    /\ UNCHANGED <<store, last, st, recorded, hist, permissions, tasks, sqlite>>

\* request_receipts: one NeedReceipts message per chunk of the needs.
RequestReceipts(n) ==
    /\ node[n].pc = "request_receipts"
    /\ LET parts == chunks(node[n].needs, max_batch_size)
       IN node' = Send([node EXCEPT ![n].pc = "receive_receipts"], Peer(n),
                       [i \in 1..Len(parts) |-> Msg(n, "NeedReceipts", parts[i])])
    /\ UNCHANGED <<store, last, st, recorded, hist, permissions, tasks, sqlite>>

\* One pass of the loop of receive_receipts, when a message arrives.
ReceiveReceipts(n) ==
    /\ node[n].pc = "receive_receipts"
    /\ node[n].inbox # <<>>
    /\ LET msg == Head(node[n].inbox)
           nd == Recv(node, n)
           out == process_receipts(node[n].store, node[n].received, node[n].report, msg.body)
       IN node' = IF msg.type = "Receipts"
                  THEN [nd EXCEPT ![n].store = out.store, ![n].received = out.received,
                                  ![n].report = out.report]
                  ELSE IF msg.type = "Ack" THEN [nd EXCEPT ![n].pc = "send_ack"]
                  ELSE IF msg.type = "Error" THEN Fail(nd, n, "PeerError")
                  ELSE nd
    /\ UNCHANGED <<store, last, st, recorded, hist, permissions, tasks, sqlite>>

\* send_ack with the ids received
SendAck(n) ==
    /\ node[n].pc = "send_ack"
    /\ node' = Send([node EXCEPT ![n].pc = "handle_peer_requests"], Peer(n),
                    <<Msg(n, "Ack", node[n].received)>>)
    /\ UNCHANGED <<store, last, st, recorded, hist, permissions, tasks, sqlite>>

\* One pass of the loop of handle_peer_requests, when a message arrives;
\* after the loop sync_with sets report.success and returns.
HandlePeerRequests(n) ==
    /\ node[n].pc = "handle_peer_requests"
    /\ node[n].inbox # <<>>
    /\ LET msg == Head(node[n].inbox)
           nd == Recv(node, n)
           got == gather_receipts(n, node[n].store, requested_positions(msg.body), <<>>, <<>>, 0)
       IN node' = IF msg.type = "NeedReceipts"
                  THEN Send([nd EXCEPT ![n].report.sent_count = @ + got.sent], Peer(n),
                            got.msgs
                            \o (IF got.receipts # <<>>
                                THEN <<Msg(n, "Receipts", got.receipts)>> ELSE <<>>)
                            \o <<Msg(n, "Ack", <<>>)>>)
                  ELSE IF msg.type = "Ack"
                  THEN [nd EXCEPT ![n].pc = "done", ![n].report.success = TRUE]
                  ELSE IF msg.type = "Error" THEN Fail(nd, n, "PeerError")
                  ELSE nd
    /\ UNCHANGED <<store, last, st, recorded, hist, permissions, tasks, sqlite>>

\* recv_timeout returns None.  message_timeout outlasts every step of the
\* peer, so the wait only expires once the peer will send nothing more
\* unasked.
RecvTimeout(n) ==
    /\ node[n].pc \in RecvStates
    /\ node[n].inbox = <<>>
    /\ Quiet(Peer(n))
    /\ node' = IF node[n].pc = "receive_receipts" THEN [node EXCEPT ![n].pc = "send_ack"]
               ELSE IF node[n].pc = "handle_peer_requests"
               THEN [node EXCEPT ![n].pc = "done", ![n].report.success = TRUE]
               ELSE Fail(node, n, "Timeout")
    /\ UNCHANGED <<store, last, st, recorded, hist, permissions, tasks, sqlite>>

SyncNext ==
    \E n \in Nodes :
        \/ SendHello(n)
        \/ ReceiveHello(n)
        \/ SendStreamHeads(n)
        \/ ReceiveStreamHeads(n)
        \/ ComputeNeeds(n)
        \/ RequestReceipts(n)
        \/ ReceiveReceipts(n)
        \/ SendAck(n)
        \/ HandlePeerRequests(n)
        \/ RecvTimeout(n)

SyncSpec == SyncInit /\ [][SyncNext]_vars

\* ------------------------------------------------ claims: the sync session

\* Both sessions have returned Ok(report).
Done == \A n \in Nodes : node[n].pc = "done"

\* The stream ids that occur in a session of the model.
SyncStreams == {Derive("alice", ""), Derive("bob", "")}

\* Store s holds of stream S exactly the receipts at 1..n, and its stream
\* state of S has head n (no state at all counts as head 0).
HoldsUpTo(s, S, n) ==
    /\ {p \in DOMAIN s.positions : p[1] = S} = {<<S, q>> : q \in 1..n}
    /\ LET got == get_stream_state(s, S)
       IN IF got = None THEN n = 0 ELSE got[1].head_seq = n

\* When the session started, node a held receipts 1..n of S, all of them
\* valid, with head n and its peer held only the first k < n of those
\* receipts, with head k.
AheadOfPeer(a, S, n, k) ==
    /\ k < n
    /\ HoldsUpTo(node[a].before, S, n)
    /\ \A id \in DOMAIN node[a].before.receipts :
          validate_receipt(node[a].before.receipts[id]) = "Ok"
    /\ HoldsUpTo(node[Peer(a)].before, S, k)
    /\ \A q \in 1..k : get_receipt_by_position(node[Peer(a)].before, S, q)
                          = get_receipt_by_position(node[a].before, S, q)

\* C14: after a complete session between a node that held receipts 1..n of
\* a stream with head n and a node that held only receipts 1..k of it with
\* head k < n, the second node's store holds at every seq of 1..n the
\* receipt the first node holds there.
C14_PrefixHolderCatchesUp ==
    \A a \in Nodes, S \in SyncStreams, n \in 1..MaxSeq, k \in 0..MaxSeq :
        (Done /\ AheadOfPeer(a, S, n, k)) =>
            \A q \in 1..n : get_receipt_by_position(node[Peer(a)].store, S, q)
                               = get_receipt_by_position(node[a].store, S, q)

\* C15: after a complete session in which the node with head k has received
\* receipts k+1..n of a stream from the node with head n, the receiver's
\* stream state has head_seq = n and head_receipt_id = the id of receipt n,
\* and compute_stream_state_hash of the stream is the same on both nodes.
C15_ReceiverHeadAndHashCatchUp ==
    \A a \in Nodes, S \in SyncStreams, n \in 1..MaxSeq, k \in 0..MaxSeq :
        LET b == Peer(a)
            got == get_stream_state(node[b].store, S)
        IN (/\ Done
            /\ AheadOfPeer(a, S, n, k)
            /\ \A q \in (k + 1)..n :
                  /\ get_receipt_by_position(node[b].store, S, q)
                        = get_receipt_by_position(node[a].store, S, q)
                  /\ node[a].store.positions[<<S, q>>] \in
                        {node[b].received[i] : i \in 1..Len(node[b].received)})
           => /\ got # None
              /\ got[1].head_seq = n
              /\ got[1].head_receipt_id = get_receipt_by_position(node[a].store, S, n)
              /\ compute_stream_state_hash(node[b].store, S)
                    = compute_stream_state_hash(node[a].store, S)

\* The receipts of two stores can live in one store: all are valid and no
\* two of them claim the same (stream_id, seq).
Compatible(s, t) ==
    /\ \A id \in DOMAIN s.receipts : validate_receipt(s.receipts[id]) = "Ok"
    /\ \A id \in DOMAIN t.receipts : validate_receipt(t.receipts[id]) = "Ok"
    /\ \A p \in DOMAIN s.positions \cap DOMAIN t.positions : s.positions[p] = t.positions[p]

\* C16: when each of the two nodes lacked receipts the other held and both
\* sent NeedReceipts, after the session each node has served the other's
\* request and both stores hold the union of the two receipt sets.
C16_MutualNeedsGiveUnion ==
    LET A == node["A"]
        B == node["B"]
        union == DOMAIN A.before.receipts \cup DOMAIN B.before.receipts
    IN (/\ Done
        /\ A.needs # <<>> /\ B.needs # <<>>
        /\ DOMAIN A.before.receipts \ DOMAIN B.before.receipts # {}
        /\ DOMAIN B.before.receipts \ DOMAIN A.before.receipts # {}
        /\ Compatible(A.before, B.before))
       => /\ A.report.sent_count > 0 /\ B.report.sent_count > 0
          /\ DOMAIN A.store.receipts = union
          /\ DOMAIN B.store.receipts = union

\* C17: when a session has split its needs over several NeedReceipts
\* messages, then after the session every receipt the peer sent in answer to
\* them has gone through the session's receive phase, where it was counted
\* as received, duplicate or invalid.
C17_EveryNeedMessageIsAnswered ==
    \A n \in Nodes :
        (Done /\ Len(chunks(node[n].needs, max_batch_size)) >= 2) =>
            node[Peer(n)].report.sent_count
                = node[n].report.received_count + node[n].report.duplicate_count
                  + node[n].report.invalid_count

\* C18: when the receive phase processes a valid receipt whose id is not
\* stored while another receipt is stored at its (stream_id, seq), the fork
\* log of the store afterwards has an entry for that stream at that seq.
C18_SyncConflictRecordsFork ==
    [][\A n \in Nodes :
          (ReceiveReceipts(n) /\ Head(node[n].inbox).type = "Receipts") =>
              LET batch == Head(node[n].inbox).body
                  s == node[n].store
              IN \A i \in 1..Len(batch) :
                    (/\ validate_receipt(batch[i]) = "Ok"
                     /\ ReceiptIdOf(batch[i]) \notin DOMAIN s.receipts
                     /\ <<batch[i].stream_id, batch[i].seq>> \in DOMAIN s.positions)
                    => LET forks == get_forks(node'[n].store, batch[i].stream_id)
                       IN \E j \in 1..Len(forks) : forks[j].seq = batch[i].seq]_vars

\* C20: with validate_receipts on, when the receive phase processes a
\* Receipts message, a receipt of it that fails validation is not inserted,
\* every stored receipt, position, stream state, gap and fork entry stays as
\* it was, invalid_count grows by the number of failing receipts, and the
\* other receipts of the message are processed: each is counted as received
\* or duplicate and its position is filled afterwards.
C20_InvalidReceiptIsSkipped ==
    [][\A n \in Nodes :
          (ReceiveReceipts(n) /\ Head(node[n].inbox).type = "Receipts") =>
              LET batch == Head(node[n].inbox).body
                  bad == {i \in 1..Len(batch) : validate_receipt(batch[i]) # "Ok"}
                  good == (1..Len(batch)) \ bad
                  s == node[n].store
                  t == node'[n].store
                  r0 == node[n].report
                  r1 == node'[n].report
              IN /\ \A i \in bad : ReceiptIdOf(batch[i]) \notin DOMAIN s.receipts
                                      => ReceiptIdOf(batch[i]) \notin DOMAIN t.receipts
                 /\ \A id \in DOMAIN s.receipts : id \in DOMAIN t.receipts /\ t.receipts[id] = s.receipts[id]
                 /\ \A p \in DOMAIN s.positions : p \in DOMAIN t.positions /\ t.positions[p] = s.positions[p]
                 /\ t.streams = s.streams /\ t.gaps = s.gaps /\ t.forks = s.forks
                 /\ good = {} => t = s
                 /\ r1.invalid_count = r0.invalid_count + Cardinality(bad)
                 /\ (r1.received_count - r0.received_count)
                       + (r1.duplicate_count - r0.duplicate_count) = Cardinality(good)
                 /\ \A i \in good : <<batch[i].stream_id, batch[i].seq>> \in DOMAIN t.positions
                 /\ node'[n].pc = "receive_receipts"]_vars

\* C20 happens: a session has counted the forged receipt as invalid without
\* storing it, and has stored the receipt that came after it in the same
\* message.
C20_Witness ==
    \E n \in Nodes :
        /\ node[n].report.invalid_count = 1
        /\ node[n].report.received_count = 1
        /\ ReceiptIdOf(ForgedReceipt) \notin DOMAIN node[n].store.receipts
        /\ ReceiptIdOf(ForgedReceipt) \in DOMAIN node[Peer(n)].store.receipts
        /\ ReceiptIdOf(ChainReceipt("alice", "", 3, "hello")) \in DOMAIN node[n].store.receipts
        /\ ReceiptIdOf(ChainReceipt("alice", "", 3, "hello")) \notin DOMAIN node[n].before.receipts
        /\ node[n].store.streams = node[n].before.streams

\* The ids of the receipts of stream S that store s holds.
ReceiptsOf(s, S) == {id \in DOMAIN s.receipts : s.receipts[id].stream_id = S}

\* C22: for every stream, compute_stream_state_hash gives the same value on
\* the two nodes exactly when the two stores hold the same receipts of the
\* stream.
C22_HashEqualIffSameReceipts ==
    \A S \in SyncStreams :
        (compute_stream_state_hash(node["A"].store, S)
            = compute_stream_state_hash(node["B"].store, S))
        <=> ReceiptsOf(node["A"].store, S) = ReceiptsOf(node["B"].store, S)

\* C23: the StreamHeads message a session sends holds exactly the heads of
\* its store whose stream is in the interest list of the peer's Hello, or
\* all of its heads when that list is empty.
C23_HeadsFilteredByPeerInterest ==
    [][\A n \in Nodes :
          SendStreamHeads(n) =>
              LET sent == node'[Peer(n)].inbox[Len(node'[Peer(n)].inbox)]
                  announced == node[Peer(n)].streams_of_interest
              IN /\ sent.type = "StreamHeads"
                 /\ sent.body = {h \in get_all_stream_heads(node[n].store) :
                                    announced = {} \/ h.stream_id \in announced}]_vars

\* The message is a Hello of the peer that carries another protocol
\* version than the build of node n.
MismatchedHello(n, msg) ==
    /\ msg.type = "Hello"
    /\ msg.from = Peer(n)
    /\ msg.body.protocol_version # node[n].protocol_version

\* C25: when a session receives a Hello with another protocol version, it
\* sends the peer an Error message with code VersionMismatch and ends with
\* the error, its store untouched and no StreamHeads or NeedReceipts sent.
C25_VersionMismatchAnswersError ==
    [][\A n \in Nodes :
          (ReceiveHello(n) /\ MismatchedHello(n, Head(node[n].inbox))) =>
              LET outbox == node'[Peer(n)].inbox
              IN /\ node'[n].pc = "failed"
                 /\ node'[n].error = "VersionMismatch"
                 /\ node'[n].store = node[n].before
                 /\ \A i \in 1..Len(outbox) :
                        outbox[i].from = n => outbox[i].type \in {"Hello", "Error"}
                 /\ \E i \in 1..Len(outbox) :
                        /\ outbox[i].from = n
                        /\ outbox[i].type = "Error"]_vars

\* C24: every message a session has sent passes validate_limits.
C24_SentMessagesRespectLimits ==
    \A n \in Nodes : \A i \in 1..Len(node[n].inbox) :
        validate_limits(node[n].inbox[i]) = "Ok"

\* Node a started the session holding receipts 1..3 of alice's stream and
\* nothing else, its peer holding receipt 1 of that stream and nothing else,
\* neither session with an interest list.
ThreeAgainstOne(a) ==
    /\ node[a].before = FeedAll(NewMemoryStore, Chain("alice", 3))
    /\ node[Peer(a)].before = FeedAll(NewMemoryStore, Chain("alice", 1))
    /\ \A n \in Nodes : node[n].streams_of_interest = {}

\* C26 as stated: after a complete session between a node that held
\* receipts 1..3 of a stream and a node that held receipt 1 only, the
\* report of the second shows received_count = 2 and duplicate_count = 1.
C26_ReportCountsOverlapAsDuplicate ==
    \A a \in Nodes :
        (Done /\ ThreeAgainstOne(a)) =>
            /\ node[Peer(a)].report.received_count = 2
            /\ node[Peer(a)].report.duplicate_count = 1

\* C26, amended: after such a session the report of the second node shows
\* received_count = 2, duplicate_count = 0 and invalid_count = 0, and the
\* report of the first shows sent_count = 2.
C26_ReportCountsOnlyRequested ==
    \A a \in Nodes :
        (Done /\ ThreeAgainstOne(a)) =>
            /\ node[Peer(a)].report.received_count = 2
            /\ node[Peer(a)].report.duplicate_count = 0
            /\ node[Peer(a)].report.invalid_count = 0
            /\ node[a].report.sent_count = 2

\* C26 happens: the session of three receipts against one has completed
\* and the second node has stored receipts 2 and 3.
C26_Witness ==
    /\ Done
    /\ ThreeAgainstOne("A")
    /\ node["B"].report.success
    /\ Len(node["B"].received) = 2
    /\ DOMAIN node["B"].store.receipts = DOMAIN node["A"].store.receipts

\* ------------------------------------- specification: the receive phase
\*
\* One session in receive_receipts, fed by the transport.  receive_receipts
\* takes Receipts from any sender and processes whatever they carry, so the
\* messages come from the environment: a peer need not run this code.

\* The most receipts the transport delivers in one receive phase.
MaxDelivered == 3

\* The receipts a peer may deliver: alice's chain, a second receipt and a
\* forged one at seq 2, and the first receipt of bob's stream.
Deliverable ==
    {ChainReceipt("alice", "", q, "hello") : q \in 1..3}
    \cup {ChainReceipt("alice", "", 2, "world"), ForgedReceipt,
          ChainReceipt("bob", "", 1, "hello")}

\* The StreamHeads a peer holding alice's whole chain announces.
AnnouncedHeads ==
    LET S == Derive("alice", "")
    IN MapPut(EmptyMap, S,
              [stream_id |-> S, head_seq |-> 3,
               head_receipt_id |-> ReceiptIdOf(ChainReceipt("alice", "", 3, "hello"))])

\* A session that has requested its needs and waits in receive_receipts.
AwaitingReceipts(s) ==
    [NewSyncSession(s) EXCEPT !.pc = "receive_receipts", !.peer_id = Some("A"),
                              !.peer_heads = AnnouncedHeads,
                              !.needs = compute_needs(s, AnnouncedHeads,
                                                      <<Derive("alice", "")>>)]

ReceiveInit ==
    /\ StoreIdle
    /\ StreamIdle
    /\ PermIdle
    /\ TasksIdle
    /\ SqliteIdle
    /\ \E f \in Feeds :
          /\ node = [n \in {"B"} |-> AwaitingReceipts(FeedAll(NewMemoryStore, f))]
          /\ node["B"].needs # <<>>

\* The receipts the session has processed so far in this phase.
Processed(n) ==
    node[n].report.received_count + node[n].report.duplicate_count
        + node[n].report.invalid_count

\* The transport hands the waiting session a Receipts message that carries
\* a set of receipts in some order.
DeliverReceipts(n) ==
    /\ node[n].pc = "receive_receipts"
    /\ node[n].inbox = <<>>
    /\ \E D \in SUBSET Deliverable :
          /\ D # {}
          /\ Processed(n) + Cardinality(D) <= MaxDelivered
          /\ \E batch \in Orders(D) :
                node' = Send(node, n, <<Msg("A", "Receipts", batch)>>)
    /\ UNCHANGED <<store, last, st, recorded, hist, permissions, tasks, sqlite>>

\* The transport hands the waiting session the peer's Ack.
DeliverAck(n) ==
    /\ node[n].pc = "receive_receipts"
    /\ node[n].inbox = <<>>
    /\ node' = Send(node, n, <<Msg("A", "Ack", <<>>)>>)
    /\ UNCHANGED <<store, last, st, recorded, hist, permissions, tasks, sqlite>>

ReceiveNext ==
    \/ DeliverReceipts("B")
    \/ DeliverAck("B")
    \/ ReceiveReceipts("B")

ReceiveSpec == ReceiveInit /\ [][ReceiveNext]_vars

\* No two receipts of the batch that pass validation claim the same
\* (stream_id, seq) under different ids.
ConflictFree(batch) ==
    \A i, j \in 1..Len(batch) :
        (/\ validate_receipt(batch[i]) = "Ok" /\ validate_receipt(batch[j]) = "Ok"
         /\ batch[i].stream_id = batch[j].stream_id /\ batch[i].seq = batch[j].seq)
        => ReceiptIdOf(batch[i]) = ReceiptIdOf(batch[j])

MaxPermSeq == 3

\* Longest per-recipient grant list the permission state is let grow to.
MaxGrantList == 3

\* Most uses recorded on one grant.
MaxUseCount == 2

Owner == "alice"

PermsStream == Derive(Owner, "")

DataStream == Derive(Owner, "test")

\* Who asks for access: bob, who is granted it, and carol, who never is.
Principals == {"bob", "carol"}

\* The times of the queries: before and after the expiry of a grant that
\* expires at 1.
Times == {0, 2}

\* The grants alice hands out: read or admin access for bob to her stream,
\* unconditional, expiring at 1, or limited to one use.
GrantPayloads ==
    {GrantPayload("bob", scope, conditions) :
        scope \in {ReadStream(DataStream), Admin(DataStream)},
        conditions \in {None, Some(Conditions(Some(1), None)), Some(Conditions(None, Some(1)))}}

\* What the last call was and, for a query, what it answered.
Called(op, principal, now, result) ==
    [op |-> op, principal |-> principal, now |-> now, result |-> result]

PermInit ==
    /\ StreamIdle
    /\ SyncIdle
    /\ TasksIdle
    /\ SqliteIdle
    /\ store = create_stream(NewMemoryStore, Owner, "", "perms").store
    /\ permissions = NewPermissionState
    /\ last = Called("create_stream", "", 0, FALSE)

\* The head of the permissions stream.
PermsHead == get_stream_state(store, PermsStream)[1].head_seq

\* The ids of the Grant receipts in the store.
GrantIds == {id \in DOMAIN store.receipts : store.receipts[id].kind = "Grant"}

\* No per-recipient list of ps is longer than the model lets it grow.
WithinLists(ps) == \A r \in DOMAIN ps.by_recipient : Len(ps.by_recipient[r]) <= MaxGrantList

\* Kernel::grant on the permissions stream
KernelGrant(payload) ==
    /\ PermsHead < MaxPermSeq
    /\ store' = grant(store, Owner, PermsStream, payload).store
    /\ last' = Called("grant", "", 0, FALSE)
    /\ UNCHANGED <<st, recorded, hist, node, permissions, tasks, sqlite>>

\* Kernel::revoke on the permissions stream
KernelRevoke(grant_receipt_id) ==
    /\ PermsHead < MaxPermSeq
    /\ store' = revoke(store, Owner, PermsStream, grant_receipt_id).store
    /\ last' = Called("revoke", "", 0, FALSE)
    /\ UNCHANGED <<st, recorded, hist, node, permissions, tasks, sqlite>>

\* Kernel::rebuild_permissions for the permissions stream
RebuildPermissions ==
    LET out == rebuild_permissions(permissions, store, PermsStream)
    IN /\ WithinLists(out.permissions)
       /\ permissions' = out.permissions
       /\ last' = Called("rebuild_permissions", "", 0, FALSE)
       /\ UNCHANGED <<store, st, recorded, hist, node, tasks, sqlite>>

\* PermissionState::apply_receipt with a receipt of the store
ApplyReceipt(id) ==
    LET out == apply_receipt(permissions, store.receipts[id])
    IN /\ WithinLists(out.permissions)
       /\ permissions' = out.permissions
       /\ last' = Called("apply_receipt", "", 0, FALSE)
       /\ UNCHANGED <<store, st, recorded, hist, node, tasks, sqlite>>

\* get_grant_mut(id) followed by GrantState::record_use
RecordUse(id) ==
    /\ id \in DOMAIN permissions.grants
    /\ permissions.grants[id].use_count < MaxUseCount
    /\ permissions' = [permissions EXCEPT !.grants[id] = record_use(@)]
    /\ last' = Called("record_use", "", 0, FALSE)
    /\ UNCHANGED <<store, st, recorded, hist, node, tasks, sqlite>>

\* PermissionState::can_read_stream for alice's stream
CanReadStream(principal, now) ==
    /\ last' = Called("can_read_stream", principal, now,
                      can_read_stream(permissions, principal, DataStream, now))
    /\ UNCHANGED <<store, st, recorded, hist, node, permissions, tasks, sqlite>>

PermNext ==
    \/ \E payload \in GrantPayloads : KernelGrant(payload)
    \/ \E id \in GrantIds : KernelRevoke(id)
    \/ RebuildPermissions
    \/ \E id \in DOMAIN store.receipts : ApplyReceipt(id)
    \/ \E id \in DOMAIN permissions.grants : RecordUse(id)
    \/ \E principal \in Principals, now \in Times : CanReadStream(principal, now)

PermSpec == PermInit /\ [][PermNext]_vars

\* ------------------------------------------------ claims: permissions

\* Grant g gives principal read access to the stream as far as recipient
\* and scope go, is not revoked and has not expired at now.
StandingReadGrant(g, principal, stream_id, now) ==
    /\ g.recipient = principal
    /\ g.scope \in {ReadStream(stream_id), Admin(stream_id)}
    /\ ~g.revoked
    /\ ~(g.conditions # None /\ g.conditions[1].expires_at # None
          /\ now > g.conditions[1].expires_at[1])

\* C27: in every permission state, can_read_stream(p, s, now) is true
\* exactly when some grant of the state has recipient p, scope
\* ReadStream(s) or Admin(s), is not revoked and has not expired at now.
C27_ReadIffStandingGrant ==
    \A principal \in Principals, now \in Times :
        can_read_stream(permissions, principal, DataStream, now)
        <=> \E id \in DOMAIN permissions.grants :
               StandingReadGrant(permissions.grants[id], principal, DataStream, now)

\* C28: a grant that is revoked in the permission state is still held and
\* still revoked after the next apply_receipt or rebuild_permissions.
C28_RevokedStaysRevoked ==
    [][\A id \in DOMAIN permissions.grants :
          permissions.grants[id].revoked =>
              /\ id \in DOMAIN permissions'.grants
              /\ permissions'.grants[id].revoked]_vars

\* The grant a successful can_read_stream relied on: the valid one found
\* under the ReadStream key, else the valid one under the Admin key.
ReliedOn(ps, principal, stream_id, now) ==
    IF valid_by_scope(ps, principal, ReadStream(stream_id), now) # None
    THEN valid_by_scope(ps, principal, ReadStream(stream_id), now)
    ELSE valid_by_scope(ps, principal, Admin(stream_id), now)

\* C29: a grant with max_uses = n is invalid once its use_count has reached
\* n, and a can_read_stream that answers true on the strength of a grant
\* with max_uses leaves that grant's use_count one higher.
C29_SuccessfulCheckCountsAsUse ==
    [][/\ \A id \in DOMAIN permissions.grants, now \in Times :
             LET g == permissions.grants[id]
             IN (/\ g.conditions # None
                 /\ g.conditions[1].max_uses # None
                 /\ g.use_count >= g.conditions[1].max_uses[1]) => ~is_valid(g, now)
       /\ \A principal \in Principals, now \in Times :
             (CanReadStream(principal, now) /\ last'.result) =>
                 LET g == ReliedOn(permissions, principal, DataStream, now)[1]
                 IN (g.conditions # None /\ g.conditions[1].max_uses # None) =>
                        permissions'.grants[g.grant_receipt_id].use_count
                            = g.use_count + 1]_vars

\* C30: rebuild_permissions run on a permission state that already is what
\* a rebuild from the empty state gives leaves the state as it is: the same
\* grants, per-recipient lists and index, hence the same query answers.
C30_RebuildOnRebuiltStateChangesNothing ==
    [][(/\ RebuildPermissions
        /\ permissions = rebuild_permissions(NewPermissionState, store, PermsStream).permissions)
       => permissions' = permissions]_vars

\* --------------------------------- specification: the Kernel's operations

\* The kinds a caller passes to Kernel::append.
AppendKinds == {"Data", "StreamInit", "Tombstone"}

\* Receipts from outside handed to Kernel::ingest: the author's conflicting
\* receipts and the receipts validation rejects.
IngestedReceipts == {ChainReceipt(Owner, "", q, "world") : q \in ForkSeqs} \cup InvalidReceipts

\* The streams of the kernel's author.
OwnStreams == {Derive(Owner, name) : name \in Names}

\* What the last Kernel call was given and what it returned: the stream, the
\* receipt whose id it returned (None on an error) and Ok or the error.
Returned(op, stream_id, receipt, result) ==
    [op |-> op, stream_id |-> stream_id, receipt |-> receipt, result |-> result]

\* The receipt the store holds at (stream_id, seq), if any.
ReceiptAt(s, stream_id, seq) ==
    LET id == get_receipt_by_position(s, stream_id, seq)
    IN IF id = None THEN None ELSE Some(s.receipts[id[1]])

KernelInit ==
    /\ StreamIdle
    /\ SyncIdle
    /\ PermIdle
    /\ TasksIdle
    /\ SqliteIdle
    /\ store = NewMemoryStore
    /\ last = Returned("new", None, None, "Ok")

\* The seq the next append to stream_id gets.
NextSeq(stream_id) ==
    LET state == get_stream_state(store, stream_id)
    IN IF state = None THEN 1 ELSE state[1].head_seq + 1

\* Kernel::create_stream(name, payload)
CreateStream(name, payload) ==
    LET out == create_stream(store, Owner, name, payload)
        stream_id == Derive(Owner, name)
    IN /\ store' = out.store
       /\ last' = Returned("create_stream", Some(stream_id),
                           IF out.result = "Ok"
                           THEN ReceiptAt(out.store, stream_id, 1) ELSE None,
                           out.result)
       /\ UNCHANGED <<st, recorded, hist, node, permissions, tasks, sqlite>>

\* The record of a call that appends to stream_id and gave out.
Appended(op, stream_id, out) ==
    Returned(op, Some(stream_id),
             IF out.result = "Ok"
             THEN ReceiptAt(out.store, stream_id, NextSeq(stream_id)) ELSE None,
             out.result)

\* Kernel::append(stream_id, kind, payload)
KernelAppend(stream_id, kind, payload) ==
    LET out == append(store, Owner, stream_id, kind, payload)
    IN /\ NextSeq(stream_id) <= MaxSeq
       /\ store' = out.store
       /\ last' = Appended("append", stream_id, out)
       /\ UNCHANGED <<st, recorded, hist, node, permissions, tasks, sqlite>>

\* Kernel::tombstone(stream_id, target_receipt_id)
KernelTombstone(stream_id, target_receipt_id) ==
    LET out == tombstone(store, Owner, stream_id, target_receipt_id)
    IN /\ NextSeq(stream_id) <= MaxSeq
       /\ store' = out.store
       /\ last' = Appended("tombstone", stream_id, out)
       /\ UNCHANGED <<st, recorded, hist, node, permissions, tasks, sqlite>>

\* Kernel::grant(perms_stream_id, payload)
GrantOn(perms_stream_id, payload) ==
    LET out == grant(store, Owner, perms_stream_id, payload)
    IN /\ NextSeq(perms_stream_id) <= MaxSeq
       /\ store' = out.store
       /\ last' = Appended("grant", perms_stream_id, out)
       /\ UNCHANGED <<st, recorded, hist, node, permissions, tasks, sqlite>>

\* Kernel::revoke(perms_stream_id, grant_receipt_id, None)
RevokeOn(perms_stream_id, grant_receipt_id) ==
    LET out == revoke(store, Owner, perms_stream_id, grant_receipt_id)
    IN /\ NextSeq(perms_stream_id) <= MaxSeq
       /\ store' = out.store
       /\ last' = Appended("revoke", perms_stream_id, out)
       /\ UNCHANGED <<st, recorded, hist, node, permissions, tasks, sqlite>>

\* Kernel::ingest(receipt)
KernelIngest(r) ==
    LET out == ingest(store, r)
    IN /\ store' = out.store
       /\ last' = Returned("ingest", Some(r.stream_id),
                           IF out.result.tag = "Accepted" THEN Some(r) ELSE None,
                           out.result.tag)
       /\ UNCHANGED <<st, recorded, hist, node, permissions, tasks, sqlite>>

KernelNext ==
    \/ \E name \in Names, payload \in Payloads : CreateStream(name, payload)
    \/ \E stream_id \in OwnStreams, kind \in AppendKinds, payload \in Payloads :
          KernelAppend(stream_id, kind, payload)
    \/ \E stream_id \in OwnStreams, id \in DOMAIN store.receipts :
          KernelTombstone(stream_id, id)
    \/ \E stream_id \in OwnStreams :
          GrantOn(stream_id, GrantPayload("bob", ReadStream(DataStream), None))
    \/ \E stream_id \in OwnStreams, id \in GrantIds : RevokeOn(stream_id, id)
    \/ \E r \in IngestedReceipts : KernelIngest(r)

KernelSpec == KernelInit /\ [][KernelNext]_vars

\* ---------------------------------------- claims: the Kernel's operations

\* C39: after create_stream(name, payload) has returned (S, id1), for any
\* stream name, append(S, Data, payload2) succeeds and stores a receipt at
\* seq 2 of S whose prev_receipt_id is id1.
C39_AppendAfterCreateStream ==
    [][\A name \in Names, payload2 \in Payloads :
          LET S == Derive(Owner, name)
          IN (/\ last.op = "create_stream"
              /\ last.result = "Ok"
              /\ last.stream_id = Some(S)
              /\ KernelAppend(S, "Data", payload2))
             => /\ last'.result = "Ok"
                /\ ReceiptAt(store', S, 2) # None
                /\ ReceiptAt(store', S, 2)[1].prev_receipt_id
                       = Some(ReceiptIdOf(last.receipt[1]))
                /\ ReceiptAt(store', S, 2)[1].kind = "Data"
                /\ ReceiptAt(store', S, 2)[1].payload = payload2]_vars

\* The structural invariants of a receipt.
StructurallySound(r) ==
    /\ r.kind = "StreamInit" => (r.seq = 1 /\ r.prev_receipt_id = None)
    /\ r.seq > 1 => r.prev_receipt_id # None
    /\ r.kind = "Tombstone" => r.nrefs >= 1
    /\ r.nrefs <= MAX_REFS

\* C33: every receipt stored by any sequence of Kernel operations
\* (create_stream, append, tombstone, grant, revoke, ingest) satisfies the
\* structural invariants: StreamInit implies seq = 1 and no prev, seq > 1
\* implies a prev, Tombstone implies at least one ref, at most 16 refs.
C33_StoredReceiptsAreStructurallySound ==
    \A id \in DOMAIN store.receipts : StructurallySound(store.receipts[id])

\* ------------------------------------ specification: concurrent ingests

\* Two Kernel::ingest calls run on one kernel; each store call is atomic
\* under the store's lock and the calls interleave between store calls.
Callers == {"t1", "t2"}

\* The receipts the two calls are given: the chain of one stream, a
\* conflicting first receipt and a receipt validation rejects.
ConcurrentReceipts ==
    {ChainReceipt(Owner, "", q, "hello") : q \in 1..MaxSeq}
    \cup {ChainReceipt(Owner, "", 1, "world"),
          [ChainReceipt(Owner, "", 1, "hello") EXCEPT !.signer = "mallory"]}

\* The stores the calls start on: empty, or with the first receipt ingested.
StartStores == {NewMemoryStore, ingest(NewMemoryStore, ChainReceipt(Owner, "", 1, "hello")).store}

\* An ingest call: its receipt, the await it is at, whether its
\* insert_receipt returned Inserted, the stream state it holds between
\* get_stream_state and upsert_stream_state, and what it returned.
NewIngestCall(r) ==
    [receipt |-> r, pc |-> "insert_receipt", inserted |-> FALSE, state |-> None,
     result |-> "None"]

IngestInit ==
    /\ StreamIdle
    /\ SyncIdle
    /\ PermIdle
    /\ SqliteIdle
    /\ store \in StartStores
    /\ last = [op |-> "ingest", before |-> store]
    /\ \E r1, r2 \in ConcurrentReceipts : tasks = [t \in Callers |-> NewIngestCall(IF t = "t1" THEN r1 ELSE r2)]

\* kernel.rs:215-236: validate_receipt, then insert_receipt.
CallInsertReceipt(t) ==
    LET r == tasks[t].receipt
        verdict == IF validate_on_ingest THEN validate_receipt(r) ELSE "Ok"
        ins == insert_receipt(store, r)
    IN /\ tasks[t].pc = "insert_receipt"
       /\ IF verdict # "Ok"
          THEN /\ tasks' = [tasks EXCEPT ![t].pc = "done", ![t].result = "Err"]
               /\ UNCHANGED store
          ELSE /\ store' = ins.store
               /\ tasks' = [tasks EXCEPT
                     ![t].pc = IF ins.result.tag = "Inserted" THEN "get_stream_state"
                               ELSE IF ins.result.tag = "AlreadyExists" THEN "done"
                               ELSE "record_fork",
                     ![t].inserted = ins.result.tag = "Inserted",
                     ![t].result = IF ins.result.tag = "AlreadyExists" THEN "Duplicate"
                                   ELSE "None"]
       /\ UNCHANGED <<last, st, recorded, hist, node, permissions, sqlite>>

\* kernel.rs:263-279: get_stream_state, record_receipt, try_advance_head.
CallGetStreamState(t) ==
    /\ tasks[t].pc = "get_stream_state"
    /\ tasks' = [tasks EXCEPT ![t].pc = "upsert_stream_state",
                              ![t].state = Some(state_to_upsert(store, tasks[t].receipt))]
    /\ UNCHANGED <<store, last, st, recorded, hist, node, permissions, sqlite>>

\* kernel.rs:281: upsert_stream_state, then Ok(Accepted).
CallUpsertStreamState(t) ==
    /\ tasks[t].pc = "upsert_stream_state"
    /\ store' = upsert_stream_state(store, tasks[t].state[1])
    /\ tasks' = [tasks EXCEPT ![t].pc = "done", ![t].result = "Accepted"]
    /\ UNCHANGED <<last, st, recorded, hist, node, permissions, sqlite>>

\* kernel.rs:229-233: record_fork, then Ok(Conflict).
CallRecordFork(t) ==
    LET r == tasks[t].receipt
    IN /\ tasks[t].pc = "record_fork"
       /\ store' = record_fork(store, r.stream_id, r.seq, ReceiptIdOf(r))
       /\ tasks' = [tasks EXCEPT ![t].pc = "done", ![t].result = "Conflict"]
       /\ UNCHANGED <<last, st, recorded, hist, node, permissions, sqlite>>

\* The store call the task is at returns Err (Store's methods return
\* Result), which `?` hands to the caller of ingest; the store keeps what
\* the earlier calls wrote.
StoreCallFails(t) ==
    /\ tasks[t].pc # "done"
    /\ tasks' = [tasks EXCEPT ![t].pc = "done", ![t].result = "StoreError"]
    /\ UNCHANGED <<store, last, st, recorded, hist, node, permissions, sqlite>>

IngestNext ==
    \E t \in Callers :
        \/ CallInsertReceipt(t)
        \/ CallGetStreamState(t)
        \/ CallUpsertStreamState(t)
        \/ CallRecordFork(t)
        \/ StoreCallFails(t)

IngestSpec == IngestInit /\ [][IngestNext]_vars

\* ----------------------------------------- claims: concurrent ingests

\* The stream state of r's stream covers r: it knows of r's seq and does
\* not list it as missing.
Reflects(s, r) ==
    LET state == get_stream_state(s, r.stream_id)
    IN /\ state # None
       /\ r.seq <= state[1].known_max_seq
       /\ r.seq \notin state[1].gaps

\* C31: inserting a receipt and updating its stream state persist together
\* or not at all: when the stream-state write fails or never happens after
\* insert_receipt returned Inserted, the store is not left holding the
\* receipt with a stream state that does not reflect it.
C31_InsertAndStateUpdateAreAtomic ==
    \A t \in Callers :
        (tasks[t].pc = "done" /\ tasks[t].result = "StoreError" /\ tasks[t].inserted)
            => ~(/\ ReceiptIdOf(tasks[t].receipt) \in DOMAIN store.receipts
                 /\ ~Reflects(store, tasks[t].receipt))

\* The stream state after ingesting r1 and then r2 on store s.
SerialState(s, r1, r2) ==
    get_stream_state(ingest(ingest(s, r1).store, r2).store, r1.stream_id)

\* C32: when two ingests of different receipts of the same stream run
\* concurrently on one store, the resulting stream state equals the state
\* produced by running the two ingests one after the other in some order.
C32_ConcurrentIngestsSerialize ==
    LET r1 == tasks["t1"].receipt
        r2 == tasks["t2"].receipt
    IN (/\ \A t \in Callers : tasks[t].pc = "done" /\ tasks[t].result # "StoreError"
        /\ r1 # r2
        /\ r1.stream_id = r2.stream_id)
       => get_stream_state(store, r1.stream_id)
             \in {SerialState(last.before, r1, r2), SerialState(last.before, r2, r1)}

\* ------------------------------------------------------ canonical encoding

\* crypto.rs Ed25519Signature: 64 bytes.
SIGNATURE_LENGTH == 64

\* The length of a public key, a stream id, a receipt id and a hash.
HASH_LENGTH == 32

\* ReceiptKind
ReceiptKinds == {"Data", "Tombstone", "StreamInit", "Grant", "Revoke", "KeyShare", "Anchor"}

\* ReceiptKind::to_u16
to_u16(kind) ==
    CASE kind = "Data" -> 1
      [] kind = "Tombstone" -> 2
      [] kind = "StreamInit" -> 3
      [] kind = "Grant" -> 256
      [] kind = "Revoke" -> 257
      [] kind = "KeyShare" -> 258
      [] kind = "Anchor" -> 512

\* from_u16 knowing the core kinds only.
from_u16_core_kinds_only(value) ==
    CASE value = 1 -> Some("Data")
      [] value = 2 -> Some("Tombstone")
      [] value = 3 -> Some("StreamInit")
      [] OTHER -> None

\* ReceiptKind::from_u16
from_u16(value) ==
    CASE value = 1 -> Some("Data")
      [] value = 2 -> Some("Tombstone")
      [] value = 3 -> Some("StreamInit")
      [] value = 256 -> Some("Grant")
      [] value = 257 -> Some("Revoke")
      [] value = 258 -> Some("KeyShare")
      [] value = 512 -> Some("Anchor")
      [] OTHER -> None

\* ciborium Value: integers, byte strings (with their length), null and
\* arrays of values.
Integer(n) == [type |-> "Integer", value |-> n, len |-> 0]

Bytes(len, b) == [type |-> "Bytes", value |-> b, len |-> len]

Null == [type |-> "Null", value |-> 0, len |-> 0]

Array(items) == [type |-> "Array", value |-> items, len |-> Len(items)]

\* The head of a map or an array of n entries in the encoding.
ItemHead(major, n) == [type |-> major, value |-> n, len |-> 0]

\* The key indices of the header map (key 4, the timestamp, belongs to a
\* field the receipts here do not carry).
HeaderKeys == 0..8

\* header_to_cbor_value: the entries of the header map, key and value.
header_to_cbor_value(header) ==
    << <<Integer(0), Integer(header.version)>>,
       <<Integer(1), Bytes(HASH_LENGTH, header.author)>>,
       <<Integer(2), Bytes(HASH_LENGTH, header.stream_id)>>,
       <<Integer(3), Integer(header.seq)>>,
       <<Integer(5), Integer(to_u16(header.kind))>>,
       <<Integer(6), IF header.prev_receipt_id # None
                     THEN Bytes(HASH_LENGTH, header.prev_receipt_id[1]) ELSE Null>>,
       <<Integer(7), Array([i \in 1..header.nrefs |-> Bytes(HASH_LENGTH, "ref")])>>,
       <<Integer(8), Bytes(HASH_LENGTH, header.payload_hash)>> >>

\* encode_value_to for a value of the header map: the item itself, and for
\* an array its head followed by its items.
encode_value_to(value) ==
    IF value.type = "Array" THEN <<ItemHead("ArrayHead", value.len)>> \o value.value
    ELSE <<value>>

RECURSIVE encode_entries(_)
\* The loop of encode_map_canonical over the sorted entries.
encode_entries(entries) ==
    IF entries = <<>> THEN <<>>
    ELSE <<Head(entries)[1]>> \o encode_value_to(Head(entries)[2]) \o encode_entries(Tail(entries))

\* encode_map_canonical: the head, then the entries sorted by encoded key.
encode_map_canonical(entries) ==
    LET keys == SortedSeq({entries[i][1].value : i \in 1..Len(entries)})
        sorted == [i \in 1..Len(keys) |->
                      entries[CHOOSE j \in 1..Len(entries) : entries[j][1].value = keys[i]]]
    IN <<ItemHead("MapHead", Len(entries))>> \o encode_entries(sorted)

\* canonical_header_bytes
canonical_header_bytes(header) == encode_map_canonical(header_to_cbor_value(header))

\* The public keys a caller names as author and the keypairs it signs with.
Keys == {"alice", "mallory"}

\* Keypair::sign: the 64 bytes of the signature the signer's key makes.
signature_bytes(signer) == [i \in 1..SIGNATURE_LENGTH |-> <<"sig", signer, i>>]

\* canonical_bytes: canonical_header || payload || signature
canonical_bytes(receipt) ==
    canonical_header_bytes(receipt) \o receipt.payload \o signature_bytes(receipt.signer)

RECURSIVE read_entries(_, _, _)
\* ciborium::from_reader inside a map: n more entries are read from bytes
\* at position i; the map read, or None when the bytes are not entries.
read_entries(bytes, i, n) ==
    IF n = 0 THEN Some(EmptyMap)
    ELSE IF i + 1 > Len(bytes) \/ bytes[i] \notin {Integer(k) : k \in HeaderKeys} THEN None
    ELSE LET key == bytes[i].value
             item == bytes[i + 1]
             isArray == item.type = "ArrayHead"
             value == IF isArray THEN Array(SubSeq(bytes, i + 2, i + 1 + item.value))
                      ELSE item
             next == IF isArray THEN i + 2 + item.value ELSE i + 2
             rest == read_entries(bytes, next, n - 1)
         IN IF isArray /\ i + 1 + item.value > Len(bytes) THEN None
            ELSE IF rest = None THEN None
            ELSE Some(MapPut(rest[1], key, value))

\* ciborium::from_reader: the first item of bytes, which must be a map.
from_reader(bytes) ==
    IF bytes = <<>> \/ bytes[1].type # "MapHead" THEN None
    ELSE read_entries(bytes, 2, bytes[1].value)

\* cbor_value_to_header: the header, or None for a malformed map.
cbor_value_to_header(map) ==
    LET get(key) == MapGet(map, key)
        isInt(key) == get(key) # None /\ get(key)[1].type = "Integer"
        isHash(key) == get(key) # None /\ get(key)[1].type = "Bytes"
                          /\ get(key)[1].len = HASH_LENGTH
        kind == IF isInt(5) THEN from_u16(get(5)[1].value % 65536) ELSE None
        refsOk == get(7) = None
                    \/ (get(7)[1].type = "Array"
                          /\ \A i \in 1..get(7)[1].len :
                                get(7)[1].value[i].type = "Bytes"
                                    /\ get(7)[1].value[i].len = HASH_LENGTH)
        prevOk == get(6) = None \/ get(6)[1].type = "Null" \/ isHash(6)
    IN IF ~isInt(0) \/ ~isHash(1) \/ ~isHash(2) \/ ~isInt(3) \/ kind = None
          \/ ~prevOk \/ ~refsOk \/ ~isHash(8)
       THEN None
       ELSE Some([version |-> get(0)[1].value % 256,
                  author |-> get(1)[1].value,
                  stream_id |-> get(2)[1].value,
                  seq |-> get(3)[1].value,
                  kind |-> kind[1],
                  prev_receipt_id |-> IF isHash(6) THEN Some(get(6)[1].value) ELSE None,
                  nrefs |-> IF get(7) = None THEN 0 ELSE get(7)[1].len,
                  payload_hash |-> get(8)[1].value])

\* Ed25519Signature(sig_bytes): the signature whose bytes these are.
signature_of(sig_bytes) ==
    IF \E x \in Keys : signature_bytes(x) = sig_bytes
    THEN CHOOSE x \in Keys : signature_bytes(x) = sig_bytes
    ELSE "garbage"

\* decode_receipt: Ok with the receipt, or the error.
decode_receipt(bytes) ==
    IF Len(bytes) < SIGNATURE_LENGTH THEN [result |-> "MalformedReceipt", receipt |-> None]
    ELSE LET value == from_reader(bytes)
             header == IF value = None THEN None ELSE cbor_value_to_header(value[1])
         IN IF value = None THEN [result |-> "DecodingError", receipt |-> None]
            ELSE IF header = None THEN [result |-> "MalformedReceipt", receipt |-> None]
            ELSE LET header_len == Len(canonical_header_bytes(header[1]))
                     remaining == SubSeq(bytes, header_len + 1, Len(bytes))
                     payload_len == Len(remaining) - SIGNATURE_LENGTH
                 IN IF Len(remaining) < SIGNATURE_LENGTH
                    THEN [result |-> "MalformedReceipt", receipt |-> None]
                    ELSE [result |-> "Ok",
                          receipt |-> Some([version |-> header[1].version,
                                            author |-> header[1].author,
                                            stream_id |-> header[1].stream_id,
                                            seq |-> header[1].seq,
                                            kind |-> header[1].kind,
                                            prev_receipt_id |-> header[1].prev_receipt_id,
                                            nrefs |-> header[1].nrefs,
                                            payload_hash |-> header[1].payload_hash,
                                            payload |-> SubSeq(remaining, 1, payload_len),
                                            signer |-> signature_of(
                                                SubSeq(remaining, payload_len + 1,
                                                       Len(remaining)))])]

\* Ed25519PublicKey::verify of a signature made by signer: Ok exactly when
\* the signer's key is the one public_key names.
verify(public_key, signer) == public_key = signer

\* ------------------------------------------- specification: one receipt

\* Payloads as bytes.
PayloadBytes == {<<>>, <<1>>, <<1, 2>>}

\* One receipt is made, by the builder or as a literal, and then encoded,
\* decoded or validated.
\* What the last call on the receipt was and what the calls so far gave.
ReceiptCalls(op, receipt, bytes, decoded, verdict) ==
    [op |-> op, receipt |-> receipt, bytes |-> bytes, decoded |-> decoded,
     verdict |-> verdict]

ReceiptInit ==
    /\ StoreIdle
    /\ StreamIdle
    /\ SyncIdle
    /\ PermIdle
    /\ TasksIdle
    /\ SqliteIdle

\* ReceiptBuilder::new(author, stream_id, seq), the setters, sign(keypair).
Sign(author, stream_id, seq, kind, prev, nrefs, payload, keypair) ==
    /\ last.op = "new"
    /\ last' = ReceiptCalls("sign",
                            Some(Build(author, stream_id, seq, kind, prev, nrefs, payload,
                                       keypair)),
                            None, None, "None")
    /\ UNCHANGED <<store, st, recorded, hist, node, permissions, tasks, sqlite>>

\* A Receipt written as a struct literal: all fields are public.
Literal(version, payload_hash) ==
    /\ last.op = "new"
    /\ last' = ReceiptCalls("literal",
                            Some([Build("alice", Derive("alice", ""), 1, "StreamInit", None, 0,
                                        <<1>>, "alice")
                                    EXCEPT !.version = version, !.payload_hash = payload_hash]),
                            None, None, "None")
    /\ UNCHANGED <<store, st, recorded, hist, node, permissions, tasks, sqlite>>

\* canonical_bytes(receipt)
CanonicalBytes ==
    /\ last.op \in {"sign", "literal"}
    /\ last' = ReceiptCalls("canonical_bytes", last.receipt,
                            Some(canonical_bytes(last.receipt[1])), None, "None")
    /\ UNCHANGED <<store, st, recorded, hist, node, permissions, tasks, sqlite>>

\* decode_receipt(bytes)
DecodeReceipt ==
    /\ last.op = "canonical_bytes"
    /\ last' = ReceiptCalls("decode_receipt", last.receipt, last.bytes,
                            Some(decode_receipt(last.bytes[1])), "None")
    /\ UNCHANGED <<store, st, recorded, hist, node, permissions, tasks, sqlite>>

\* validate_receipt(receipt)
ValidateReceipt ==
    /\ last.op \in {"sign", "literal"}
    /\ last' = ReceiptCalls("validate_receipt", last.receipt, None, None,
                            validate_receipt(last.receipt[1]))
    /\ UNCHANGED <<store, st, recorded, hist, node, permissions, tasks, sqlite>>

ReceiptNext ==
    \/ \E author, keypair \in Keys, name \in Names, seq \in 1..MaxSeq, kind \in ReceiptKinds,
          prev \in {None, Some(ReceiptIdOf(ChainReceipt("alice", "", 1, "hello")))},
          nrefs \in {0, 1}, payload \in PayloadBytes :
          Sign(author, Derive(author, name), seq, kind, prev, nrefs, payload, keypair)
    \/ \E version \in {RECEIPT_VERSION, RECEIPT_VERSION + 1},
          payload_hash \in {HashOf(<<1>>), HashOf(<<>>)} : Literal(version, payload_hash)
    \/ CanonicalBytes
    \/ DecodeReceipt
    \/ ValidateReceipt

ReceiptSpec == ReceiptInit /\ [][ReceiptNext]_vars

\* ------------------------------------------------- claims: one receipt

\* C34: every receipt returned by ReceiptBuilder::sign verifies: the
\* signature check of validate_receipt against the receipt's header author
\* succeeds, for every author given to the builder and every keypair given
\* to sign.
C34_BuiltReceiptVerifies ==
    last.op = "sign" => verify(last.receipt[1].author, last.receipt[1].signer)

Backends == {"MemoryStore", "SqliteStore"}

\* The stream states a caller writes: fresh, with a head, with gaps, with a
\* gap filled, forked, and the state of a second stream.
WrittenStates ==
    LET id(q, p) == ReceiptIdOf(ChainReceipt(Owner, "", q, p))
        new == NewStreamState(Owner, "")
        one == record_receipt(new, 1, id(1, "hello")).state
        far == record_receipt(new, MaxSeq, id(MaxSeq, "hello")).state
        filled == record_receipt(far, 2, id(2, "hello")).state
        headed == record_receipt(far, 1, id(1, "hello")).state
    IN {new, one, far, filled, headed,
        record_receipt(one, 2, id(2, "hello")).state,
        mark_forked(one, 1, <<id(1, "hello"), id(1, "world")>>),
        mark_forked(far, 2, <<id(2, "hello"), id(2, "world")>>),
        record_receipt(NewStreamState(Owner, "test"), 1,
                       ReceiptIdOf(ChainReceipt(Owner, "test", 1, "hello"))).state}

\* What the last store call was given and what it returned.
StateCall(op, backend, state, got) ==
    [op |-> op, backend |-> backend, state |-> state, got |-> got]

StorageInit ==
    /\ StreamIdle
    /\ SyncIdle
    /\ PermIdle
    /\ TasksIdle
    /\ store = NewMemoryStore
    /\ sqlite = NewSqliteStore
    /\ last = StateCall("new", "MemoryStore", NewStreamState(Owner, ""), None)

\* upsert_stream_state(state) on the given store
UpsertStreamState(backend, state) ==
    /\ IF backend = "MemoryStore"
       THEN store' = upsert_stream_state(store, state) /\ UNCHANGED sqlite
       ELSE sqlite' = sqlite_upsert_stream_state(sqlite, state) /\ UNCHANGED store
    /\ last' = StateCall("upsert_stream_state", backend, state, None)
    /\ UNCHANGED <<st, recorded, hist, node, permissions, tasks>>

\* get_stream_state(stream_id) on the store just written, for the stream of
\* the state just written
GetStreamState(backend) ==
    /\ last.op = "upsert_stream_state"
    /\ last.backend = backend
    /\ last' = StateCall("get_stream_state", backend, last.state,
                         IF backend = "MemoryStore"
                         THEN get_stream_state(store, last.state.stream_id)
                         ELSE sqlite_get_stream_state(sqlite, last.state.stream_id))
    /\ UNCHANGED <<store, st, recorded, hist, node, permissions, tasks, sqlite>>

StorageNext ==
    \/ \E backend \in Backends, state \in WrittenStates : UpsertStreamState(backend, state)
    \/ \E backend \in Backends : GetStreamState(backend)

StorageSpec == StorageInit /\ [][StorageNext]_vars

\* --------------------------------------- claims: stream state storage

\* C36: for MemoryStore and SqliteStore alike, get_stream_state(s.stream_id)
\* after upsert_stream_state(s) returns a stream state equal to s: the same
\* head_seq, head_receipt_id, known_max_seq, gaps and health, including the
\* at_seq and receipt ids of a Forked health.
C36_GetReturnsWhatUpsertWrote ==
    last.op = "get_stream_state" =>
        /\ last.got # None
        /\ last.got[1].head_seq = last.state.head_seq
        /\ last.got[1].head_receipt_id = last.state.head_receipt_id
        /\ last.got[1].known_max_seq = last.state.known_max_seq
        /\ last.got[1].gaps = last.state.gaps
        /\ last.got[1].health = last.state.health

\* ------------------------------ specification: sync with early timeouts

\* recv_timeout returns None because nothing arrived within
\* message_timeout, whatever the peer is doing meanwhile.
RecvTimesOut(n) ==
    /\ node[n].pc \in RecvStates
    /\ node[n].inbox = <<>>
    /\ node' = IF node[n].pc = "receive_receipts" THEN [node EXCEPT ![n].pc = "send_ack"]
               ELSE IF node[n].pc = "handle_peer_requests"
               THEN [node EXCEPT ![n].pc = "done", ![n].report.success = TRUE]
               ELSE Fail(node, n, "Timeout")
    /\ UNCHANGED <<store, last, st, recorded, hist, permissions, tasks, sqlite>>

\* The stores the two sessions start from: empty, alice's chain in part or
\* whole, and a chain with a forged receipt in it.
TimeoutFeeds ==
    {Chain("alice", n) : n \in {0, 1, MaxSeq}}
    \cup {<<ChainReceipt("alice", "", 1, "hello"), ForgedReceipt,
            ChainReceipt("alice", "", 3, "hello")>>}

\* Node A runs this build; node B runs this build or the next one.
SyncTimeoutInit ==
    /\ StoreIdle
    /\ StreamIdle
    /\ PermIdle
    /\ TasksIdle
    /\ SqliteIdle
    /\ \E fa, fb \in TimeoutFeeds, ia, ib \in Interests, vb \in Versions :
          node = [n \in Nodes |->
                    IF n = "A"
                    THEN with_streams(NewSyncSession(FeedAll(NewMemoryStore, fa)), ia)
                    ELSE [with_streams(NewSyncSession(FeedAll(NewMemoryStore, fb)), ib)
                            EXCEPT !.protocol_version = vb]]

\* The steps of node n's sync_with.
SessionStep(n) ==
    \/ SendHello(n)
    \/ ReceiveHello(n)
    \/ SendStreamHeads(n)
    \/ ReceiveStreamHeads(n)
    \/ ComputeNeeds(n)
    \/ RequestReceipts(n)
    \/ ReceiveReceipts(n)
    \/ SendAck(n)
    \/ HandlePeerRequests(n)
    \/ RecvTimesOut(n)

TimeoutNext ==
    \/ SyncNext
    \/ \E n \in Nodes : RecvTimesOut(n)

\* Each session is a task the runtime keeps polling, and every wait of a
\* session is a recv_timeout, which returns with a message or with None.
SyncTimeoutSpec ==
    SyncTimeoutInit /\ [][TimeoutNext]_vars /\ \A n \in Nodes : WF_vars(SessionStep(n))

\* ----------------------------------- claims: sync with early timeouts

\* sync_with of node n has returned.
HasReturned(n) == node[n].pc \in {"done", "failed"}

\* C37: when two peers run sync_with against each other and every receive
\* either delivers a queued message or times out, both calls eventually
\* return; a timeout while waiting for Hello or StreamHeads returns a
\* Timeout error, and a timeout while waiting for Receipts or Ack ends that
\* phase cleanly as "peer is done".
C37_BothCallsReturn ==
    /\ <>(\A n \in Nodes : HasReturned(n))
    /\ [][\A n \in Nodes :
             RecvTimesOut(n) =>
                 /\ node[n].pc \in {"receive_hello", "receive_stream_heads"}
                       => (node'[n].pc = "failed" /\ node'[n].error = "Timeout")
                 /\ node[n].pc = "receive_receipts"
                       => (node'[n].pc = "send_ack" /\ node'[n].error = "")
                 /\ node[n].pc = "handle_peer_requests"
                       => (node'[n].pc = "done" /\ node'[n].error = ""
                              /\ node'[n].report.success)]_vars

\* C37 happens: one call gave up waiting for the stream heads and returned
\* Timeout, the other ended both of its waits on a timeout and returned its
\* report.
C37_Witness ==
    /\ node["B"].pc = "failed"
    /\ node["B"].error = "Timeout"
    /\ node["B"].peer_id # None
    /\ node["A"].pc = "done"
    /\ node["A"].report.success
    /\ node["A"].needs # <<>>

====
